---- MODULE Spec2Model ----
(***************************************************************************)
(* Token input, role resolution and selection of the sales chatbot front   *)
(* end: TokenInput.js (parser, click handler), RoleBasedDropdown.js        *)
(* (getRoleFromPlaceholder) and Chat.js (handleTokenClick,                 *)
(* handleDropdownSelect).                                                  *)
(*                                                                         *)
(* A JavaScript string is a sequence of one-character strings; an index is *)
(* 1-based and 0 stands for JavaScript's -1 (not found).                   *)
(***************************************************************************)
EXTENDS Integers, Sequences, FiniteSets, TLC

VARIABLES
    input,              \* Chat: const [input, setInput]
    tokens,             \* TokenInput: const [tokens, setTokens]
    activeDropdown,     \* Chat: const [activeDropdown, setActiveDropdown]
    currentTokenIndex,  \* Chat: const [currentTokenIndex, setCurrentTokenIndex]
    dropdownPosition,   \* Chat: const [dropdownPosition, setDropdownPosition]
    messages,           \* Chat: const [messages, setMessages]
    isLoading,          \* Chat: const [isLoading, setIsLoading]
    file,               \* Chat: const [file, setFile]
    showSuggestions,    \* Chat: const [showSuggestions, setShowSuggestions]
    actualRole,         \* RoleBasedDropdown: const actualRole (last render)
    items,              \* RoleBasedDropdown: const items (last render)
    uploadedData,       \* QuestionPanel: the uploadedData prop
    scanLastIndex,      \* getRoleFromPlaceholder: nameTokenRegex.lastIndex + 1
    scanCount,          \* getRoleFromPlaceholder: let nameTokenCount
    scanTarget,         \* getRoleFromPlaceholder: let targetTokenPosition + 1
    pc,                 \* the handler that ran last
    prevInput,          \* input when handleDropdownSelect was entered
    prevDropdown,       \* activeDropdown when handleDropdownSelect was entered
    prevTokenIndex,     \* currentTokenIndex when handleDropdownSelect was entered
    selValue,           \* the value handed to handleDropdownSelect
    clicked,            \* the segment handed to TokenInput.handleTokenClick
    typed,              \* fragments typed since the input was last empty
    inFlight,           \* Chat: the axios.post calls that have not settled
    started,            \* Chat: the number of axios.post calls made so far
    selectedMainCategory,  \* QuestionPanel: const [selectedMainCategory, ...]
    selectedSubCategory,   \* QuestionPanel: const [selectedSubCategory, ...]
    showOptions,        \* QuestionPanel: the twelve show...Options flags
    panelIsLoading,     \* QuestionPanel: const [isLoading, setIsLoading]
    panelClicked,       \* the quick-action button or category clicked last
    prevMainCategory    \* selectedMainCategory before the last category click

chatOther == <<messages, isLoading, file, showSuggestions>>
scanVars == <<scanLastIndex, scanCount, scanTarget>>
history == <<prevInput, prevDropdown, prevTokenIndex, selValue>>
requestVars == <<inFlight, started>>
panelVars == <<selectedMainCategory, selectedSubCategory, showOptions,
               panelIsLoading, panelClicked, prevMainCategory>>

vars == <<input, tokens, activeDropdown, currentTokenIndex, dropdownPosition,
          chatOther, actualRole, items, uploadedData, scanVars, pc, history,
          clicked, typed, requestVars, panelVars>>

----------------------------------------------------------------------------
(* Bounds *)

MaxLen == 5        \* longest character-by-character input of the parser
MaxFrags == 3      \* most fragments typed into the Chat input
MaxCtxFrags == 3   \* most fragments in a full text handed to the resolver
MaxIdx == 2        \* largest ordinal index handed to the resolver
MaxSelFrags == 2   \* most fragments in an input handed to handleDropdownSelect
MaxSelIdx == 2     \* largest stored index handed to handleDropdownSelect
MaxScanFrags == 3  \* most fragments in a full text scanned step by step
MaxRows == 2       \* most rows of an uploaded dataset
MaxRequests == 2   \* most requests started by Chat

----------------------------------------------------------------------------
(* String primitives *)

Upper == <<"A", "B", "C", "D", "E", "F", "G", "H", "I", "J", "K", "L", "M",
           "N", "O", "P", "Q", "R", "S", "T", "U", "V", "W", "X", "Y", "Z">>
Lower == <<"a", "b", "c", "d", "e", "f", "g", "h", "i", "j", "k", "l", "m",
           "n", "o", "p", "q", "r", "s", "t", "u", "v", "w", "x", "y", "z">>
Digits == {"0", "1", "2", "3", "4", "5", "6", "7", "8", "9"}

\* the lower-case letter of every upper-case letter
LowerOf ==
    [c \in {Upper[i] : i \in 1..26} |-> Lower[CHOOSE i \in 1..26 : Upper[i] = c]]

ToLowerChar(c) == IF c \in DOMAIN LowerOf THEN LowerOf[c] ELSE c

toLowerCase(s) == [i \in 1..Len(s) |-> ToLowerChar(s[i])]

\* \s of a regular expression, and the white space String.trim removes
IsSpace(c) == c = " "

\* \w of a regular expression
WordChars ==
    {Upper[i] : i \in 1..26} \cup {Lower[i] : i \in 1..26} \cup Digits \cup {"_"}

IsWordChar(c) == c \in WordChars

SetMin(S) == CHOOSE x \in S : \A y \in S : x <= y
SetMax(S) == CHOOSE x \in S : \A y \in S : x >= y

trim(s) ==
    LET keep == {i \in 1..Len(s) : ~IsSpace(s[i])}
    IN  IF keep = {} THEN <<>> ELSE SubSeq(s, SetMin(keep), SetMax(keep))

\* p occurs in s at index i
OccursAt(s, p, i) ==
    /\ i >= 1
    /\ i + Len(p) - 1 <= Len(s)
    /\ \A k \in 1..Len(p) : s[i + k - 1] = p[k]

\* String.indexOf(p, from): the first index >= from where p occurs, or 0
indexOf(s, p, from) ==
    LET at == {i \in from..(Len(s) - Len(p) + 1) : OccursAt(s, p, i)}
    IN  IF at = {} THEN 0 ELSE SetMin(at)

includes(s, p) == \E i \in 1..(Len(s) - Len(p) + 1) : OccursAt(s, p, i)

startsWith(s, c) == Len(s) >= 1 /\ s[1] = c
endsWith(s, c) == Len(s) >= 1 /\ s[Len(s)] = c

RECURSIVE Concat(_)
Concat(ss) == IF ss = <<>> THEN <<>> ELSE Head(ss) \o Concat(Tail(ss))

----------------------------------------------------------------------------
(* The token pattern /\[[^\]]+\]/ *)

\* the last index of the match that starts at i, or 0 when none starts there
TokenEndAt(s, i) ==
    IF s[i] = "[" /\ i + 1 <= Len(s) /\ s[i + 1] # "]"
    THEN LET close == {j \in (i + 2)..Len(s) : s[j] = "]"}
         IN  IF close = {} THEN 0 ELSE SetMin(close)
    ELSE 0

\* the matches of the pattern with the g flag, left to right, from index i
RECURSIVE TokenMatchesFrom(_, _)
TokenMatchesFrom(s, i) ==
    IF i > Len(s) THEN <<>>
    ELSE LET e == TokenEndAt(s, i)
         IN  IF e = 0 THEN TokenMatchesFrom(s, i + 1)
             ELSE << <<i, e>> >> \o TokenMatchesFrom(s, e + 1)

TokenMatches(s) == TokenMatchesFrom(s, 1)

\* s.match(/\[[^\]]+\]/g) || []
matchTokens(s) ==
    LET ms == TokenMatches(s)
    IN  [k \in 1..Len(ms) |-> SubSeq(s, ms[k][1], ms[k][2])]

\* value.split(/(\[[^\]]+\])/g): text, match, text, ..., match, text
splitTokens(s) ==
    LET ms == TokenMatches(s)
        TextFrom(k) == IF k = 1 THEN 1 ELSE ms[k - 1][2] + 1
        TextTo(k) == IF k <= Len(ms) THEN ms[k][1] - 1 ELSE Len(s)
    IN  [n \in 1..(2 * Len(ms) + 1) |->
            IF n % 2 = 1
            THEN SubSeq(s, TextFrom((n + 1) \div 2), TextTo((n + 1) \div 2))
            ELSE SubSeq(s, ms[n \div 2][1], ms[n \div 2][2])]

----------------------------------------------------------------------------
(* TokenInput: the parse effect *)

\* a token segment that keeps the content only, not the brackets
SegmentDroppingBrackets(part, index) ==
    IF startsWith(part, "[") /\ endsWith(part, "]")
    THEN [type |-> "token", value |-> SubSeq(part, 2, Len(part) - 1),
          content |-> toLowerCase(trim(SubSeq(part, 2, Len(part) - 1))),
          key |-> index]
    ELSE [type |-> "text", value |-> part, content |-> part, key |-> index]

\* the callback of parts.map: a part is taken for a token by its first and
\* last character alone
Segment(part, index) ==
    IF startsWith(part, "[") /\ endsWith(part, "]")
    THEN [type |-> "token", value |-> part,
          content |-> toLowerCase(trim(SubSeq(part, 2, Len(part) - 1))),
          key |-> index]
    ELSE [type |-> "text", value |-> part, content |-> part, key |-> index]

\* the effect without the filter of empty values
parseTokensKeepingEmpty(value) ==
    IF value = <<>> THEN <<>>
    ELSE LET parts == splitTokens(value)
         IN  [n \in 1..Len(parts) |-> Segment(parts[n], n - 1)]

\* the body of the effect: split, map, filter
parseTokens(value) ==
    IF value = <<>> THEN <<>>
    ELSE LET parts == splitTokens(value)
         IN  SelectSeq([n \in 1..Len(parts) |-> Segment(parts[n], n - 1)],
                       LAMBDA t : t.value # <<>>)

----------------------------------------------------------------------------
(* RoleBasedDropdown: the words the resolver looks for *)

kw_business_head == <<"b", "u", "s", "i", "n", "e", "s", "s", " ", "h", "e", "a", "d">>
kw_group_business_manager == <<"g", "r", "o", "u", "p", " ", "b", "u", "s", "i", "n", "e", "s", "s", " ", "m", "a", "n", "a", "g", "e", "r">>
kw_channel_champ == <<"c", "h", "a", "n", "n", "e", "l", " ", "c", "h", "a", "m", "p">>
kw_group_channel_champ == <<"g", "r", "o", "u", "p", " ", "c", "h", "a", "n", "n", "e", "l", " ", "c", "h", "a", "m", "p">>
kw_vertical_account == <<"v", "e", "r", "t", "i", "c", "a", "l", " ", "a", "c", "c", "o", "u", "n", "t">>
kw_regional_commercial_business_manager == <<"r", "e", "g", "i", "o", "n", "a", "l", " ", "c", "o", "m", "m", "e", "r", "c", "i", "a", "l", " ", "b", "u", "s", "i", "n", "e", "s", "s", " ", "m", "a", "n", "a", "g", "e", "r">>
kw_business_manager == <<"b", "u", "s", "i", "n", "e", "s", "s", " ", "m", "a", "n", "a", "g", "e", "r">>
kw_year == <<"y", "e", "a", "r">>
kw_account == <<"a", "c", "c", "o", "u", "n", "t">>
kw_vertical_champ == <<"v", "e", "r", "t", "i", "c", "a", "l", " ", "c", "h", "a", "m", "p">>
kw_oem == <<"o", "e", "m">>
kw_partner == <<"p", "a", "r", "t", "n", "e", "r">>
kw_end_customer == <<"e", "n", "d", " ", "c", "u", "s", "t", "o", "m", "e", "r">>
kw_customer == <<"c", "u", "s", "t", "o", "m", "e", "r">>
kw_with == <<"w", "i", "t", "h">>
kw_name == <<"n", "a", "m", "e">>
kw_bracket_name == <<"[", "n", "a", "m", "e", "]">>
kw_constructor == <<"c", "o", "n", "s", "t", "r", "u", "c", "t", "o", "r">>
kw_proto == <<"_", "_", "p", "r", "o", "t", "o", "_", "_">>

\* the closed set of role names (the keys of roleData that the resolver names)
Roles == {"Business Head", "Group Business Manager", "Channel Champ",
          "Group Channel Champ", "Vertical Account", "Vertical Champ",
          "Regional Commercial Business Manager", "Year", "OEM", "Partner",
          "End Customer"}

\* what a property read of an object literal gives besides its own entries
Undefined == "undefined"
ObjectConstructor == "function Object() { [native code] }"
ObjectPrototype == "[object Object]"

\* const directRoleMapping = {...}, in insertion order
directRoleMapping == <<
    <<kw_business_head, "Business Head">>,
    <<kw_group_business_manager, "Group Business Manager">>,
    <<kw_channel_champ, "Channel Champ">>,
    <<kw_group_channel_champ, "Group Channel Champ">>,
    <<kw_vertical_account, "Vertical Account">>,
    <<kw_regional_commercial_business_manager, "Regional Commercial Business Manager">>,
    <<kw_business_manager, "Regional Commercial Business Manager">>,
    <<kw_year, "Year">>,
    <<kw_account, "Vertical Account">>,
    <<kw_vertical_champ, "Vertical Champ">>,
    <<kw_oem, "OEM">>,
    <<kw_partner, "Partner">>,
    <<kw_end_customer, "End Customer">>,
    <<kw_customer, "End Customer">> >>

\* directRoleMapping[k]: an own entry, else what Object.prototype holds under
\* that name (only 'constructor' and '__proto__' are lower-case names of it)
DirectLookup(k) ==
    LET own == {i \in 1..Len(directRoleMapping) : directRoleMapping[i][1] = k}
    IN  IF own # {} THEN directRoleMapping[SetMin(own)][2]
        ELSE IF k = kw_constructor THEN ObjectConstructor
        ELSE IF k = kw_proto THEN ObjectPrototype
        ELSE Undefined

\* the partial match returning the last key that is a substring
PartialLookupLast(k) ==
    LET hit == {i \in 1..Len(directRoleMapping) : includes(k, directRoleMapping[i][1])}
    IN  IF hit # {} THEN directRoleMapping[SetMax(hit)][2] ELSE Undefined

\* for (const [key, value] of Object.entries(directRoleMapping))
\*   if (lowerPlaceholder.includes(key)) return value
PartialLookup(k) ==
    LET hit == {i \in 1..Len(directRoleMapping) : includes(k, directRoleMapping[i][1])}
    IN  IF hit # {} THEN directRoleMapping[SetMin(hit)][2] ELSE Undefined

\* const rolePatterns = [...]: each pattern is \bw\b for one of its words
rolePatterns == <<
    [words |-> <<kw_oem>>, role |-> "OEM"],
    [words |-> <<kw_partner>>, role |-> "Partner"],
    [words |-> <<kw_end_customer, kw_customer>>, role |-> "End Customer"],
    [words |-> <<kw_business_head>>, role |-> "Business Head"],
    [words |-> <<kw_group_business_manager>>, role |-> "Group Business Manager"],
    [words |-> <<kw_group_channel_champ>>, role |-> "Group Channel Champ"],
    [words |-> <<kw_channel_champ>>, role |-> "Channel Champ"],
    [words |-> <<kw_vertical_champ>>, role |-> "Vertical Champ"],
    [words |-> <<kw_regional_commercial_business_manager, kw_business_manager>>,
     role |-> "Regional Commercial Business Manager"],
    [words |-> <<kw_vertical_account, kw_account>>, role |-> "Vertical Account"] >>

\* const multiNamePatterns = [...]: each alternative is its literals in
\* order with .*? between them
multiNamePatterns == <<
    [alts |-> << <<kw_business_head, kw_with, kw_oem>>,
                 <<kw_oem, kw_with, kw_business_head>> >>,
     roles |-> <<"Business Head", "OEM">>],
    [alts |-> << <<kw_business_manager, kw_oem>>,
                 <<kw_oem, kw_business_manager>> >>,
     roles |-> <<"Regional Commercial Business Manager", "OEM">>],
    [alts |-> << <<kw_group_channel_champ, kw_partner>>,
                 <<kw_partner, kw_group_channel_champ>> >>,
     roles |-> <<"Group Channel Champ", "Partner">>],
    [alts |-> << <<kw_channel_champ, kw_partner>>,
                 <<kw_partner, kw_channel_champ>> >>,
     roles |-> <<"Channel Champ", "Partner">>],
    [alts |-> << <<kw_vertical_champ, kw_customer>>,
                 <<kw_customer, kw_vertical_champ>> >>,
     roles |-> <<"Vertical Champ", "End Customer">>] >>

\* const keywordToRole = [...]
keywordToRole == <<
    [keywords |-> <<kw_business_manager>>, role |-> "Regional Commercial Business Manager"],
    [keywords |-> <<kw_group_channel_champ>>, role |-> "Group Channel Champ"],
    [keywords |-> <<kw_channel_champ>>, role |-> "Channel Champ"],
    [keywords |-> <<kw_vertical_champ>>, role |-> "Vertical Champ"],
    [keywords |-> <<kw_business_head>>, role |-> "Business Head"],
    [keywords |-> <<kw_group_business_manager>>, role |-> "Group Business Manager"],
    [keywords |-> <<kw_oem>>, role |-> "OEM"],
    [keywords |-> <<kw_partner>>, role |-> "Partner"],
    [keywords |-> <<kw_customer, kw_end_customer>>, role |-> "End Customer"],
    [keywords |-> <<kw_vertical_account>>, role |-> "Vertical Account"] >>

----------------------------------------------------------------------------
(* RoleBasedDropdown: regular expressions of the resolver *)

\* /\bw\b/.test(s), for a word w that starts and ends with a word character
WordTest(s, w) ==
    \E i \in 1..(Len(s) - Len(w) + 1) :
        /\ OccursAt(s, w, i)
        /\ (i = 1 \/ ~IsWordChar(s[i - 1]))
        /\ (i + Len(w) - 1 = Len(s) \/ ~IsWordChar(s[i + Len(w)]))

RolePatternTest(p, s) == \E k \in 1..Len(p.words) : WordTest(s, p.words[k])

\* /l1.*?l2.*?l3/.test(s) from index i: the literals in order, not overlapping
RECURSIVE InOrderFrom(_, _, _)
InOrderFrom(s, lits, i) ==
    IF lits = <<>> THEN TRUE
    ELSE LET at == indexOf(s, Head(lits), i)
         IN  at # 0 /\ InOrderFrom(s, Tail(lits), at + Len(Head(lits)))

MultiNameTest(p, s) == \E k \in 1..Len(p.alts) : InOrderFrom(s, p.alts[k], 1)

\* textBeforeToken.split(/\s+/).filter(word => word.length > 0)
RECURSIVE WordsFrom(_, _)
WordsFrom(s, i) ==
    IF i > Len(s) THEN <<>>
    ELSE IF IsSpace(s[i]) THEN WordsFrom(s, i + 1)
    ELSE LET e == SetMin({j \in i..Len(s) : j = Len(s) \/ IsSpace(s[j + 1])})
         IN  <<SubSeq(s, i, e)>> \o WordsFrom(s, e + 1)

\* words.slice(-5).join(' ')
RECURSIVE JoinSpace(_)
JoinSpace(ws) ==
    IF ws = <<>> THEN <<>>
    ELSE IF Len(ws) = 1 THEN ws[1]
    ELSE ws[1] \o <<" ">> \o JoinSpace(Tail(ws))

RecentWords(ws) ==
    JoinSpace(SubSeq(ws, IF Len(ws) > 5 THEN Len(ws) - 4 ELSE 1, Len(ws)))

\* the scan without the nameTokenCount === tokenIndex test: the first
\* occurrence whatever the index
NameTokenScanFirst(lowerText, lastIndex, nameTokenCount, tokenIndex) ==
    indexOf(lowerText, kw_bracket_name, lastIndex)

\* the scan keeping the last occurrence when the index is beyond the
\* occurrences
RECURSIVE NameTokenScanClamped(_, _, _, _)
NameTokenScanClamped(lowerText, lastIndex, nameTokenCount, tokenIndex) ==
    LET at == indexOf(lowerText, kw_bracket_name, lastIndex)
        more == IF at = 0 THEN 0
                ELSE indexOf(lowerText, kw_bracket_name, at + Len(kw_bracket_name))
    IN  IF at = 0 THEN 0
        ELSE IF nameTokenCount = tokenIndex \/ more = 0 THEN at
        ELSE NameTokenScanClamped(lowerText, at + Len(kw_bracket_name),
                                  nameTokenCount + 1, tokenIndex)

\* the while loop over nameTokenRegex = /\[name\]/gi: the index of the
\* occurrence numbered tokenIndex, or 0 when exec returns null before it
RECURSIVE NameTokenScan(_, _, _, _)
NameTokenScan(lowerText, lastIndex, nameTokenCount, tokenIndex) ==
    LET at == indexOf(lowerText, kw_bracket_name, lastIndex)
    IN  IF at = 0 THEN 0
        ELSE IF nameTokenCount = tokenIndex THEN at
        ELSE NameTokenScan(lowerText, at + Len(kw_bracket_name),
                           nameTokenCount + 1, tokenIndex)

\* (text.match(/\[name\]/gi) || []).length
RECURSIVE CountNameTokens(_, _)
CountNameTokens(lowerText, from) ==
    LET at == indexOf(lowerText, kw_bracket_name, from)
    IN  IF at = 0 THEN 0
        ELSE 1 + CountNameTokens(lowerText, at + Len(kw_bracket_name))

----------------------------------------------------------------------------
(* RoleBasedDropdown: getRoleFromPlaceholder *)

\* the first index of a loop that returns at its first hit, or 0
FirstOf(hit) == IF hit = {} THEN 0 ELSE SetMin(hit)

\* keywords.some(keyword => context.includes(keyword))
SomeKeyword(e, context) == \E n \in 1..Len(e.keywords) : includes(context, e.keywords[n])

\* the fallback with the first role of roleData's name lists as the default
KeywordFallbackDefaultGroup(fullInputContext) ==
    LET context == toLowerCase(fullInputContext)
        k == FirstOf({i \in 1..Len(keywordToRole) : SomeKeyword(keywordToRole[i], context)})
    IN  IF k # 0 THEN keywordToRole[k].role ELSE "Group Business Manager"

\* the fallback after the position-based detection: keywordToRole, then the
\* default
KeywordFallback(fullInputContext) ==
    LET context == toLowerCase(fullInputContext)
        k == FirstOf({i \in 1..Len(keywordToRole) : SomeKeyword(keywordToRole[i], context)})
    IN  IF k # 0 THEN keywordToRole[k].role ELSE "Business Head"

\* the patterns tested against the whole text instead of the text before the
\* target
PositionBasedRoleWholeText(fullInputContext, targetTokenPosition) ==
    LET textBeforeToken == toLowerCase(SubSeq(fullInputContext, 1, targetTokenPosition - 1))
        fullContext == toLowerCase(fullInputContext)
        r == FirstOf({i \in 1..Len(rolePatterns) :
                         RolePatternTest(rolePatterns[i], fullContext)})
        m == FirstOf({i \in 1..Len(multiNamePatterns) :
                         MultiNameTest(multiNamePatterns[i], fullContext)})
        nameTokensBefore == CountNameTokens(textBeforeToken, 1)
    IN  IF r # 0 THEN rolePatterns[r].role
        ELSE IF m # 0
             THEN IF nameTokensBefore = 0 THEN multiNamePatterns[m].roles[1]
                  ELSE multiNamePatterns[m].roles[2]
        ELSE Undefined

\* the second role given to the second [Name] only: nameTokensBefore === 1
\* instead of nameTokensBefore >= 1
PositionBasedRoleSecondOnly(fullInputContext, targetTokenPosition) ==
    LET textBeforeToken == toLowerCase(SubSeq(fullInputContext, 1, targetTokenPosition - 1))
        wordsBeforeToken == WordsFrom(textBeforeToken, 1)
        recentWords == RecentWords(wordsBeforeToken)
        r == FirstOf({i \in 1..Len(rolePatterns) :
                         \/ RolePatternTest(rolePatterns[i], recentWords)
                         \/ RolePatternTest(rolePatterns[i], textBeforeToken)})
        fullContext == toLowerCase(fullInputContext)
        m == FirstOf({i \in 1..Len(multiNamePatterns) :
                         MultiNameTest(multiNamePatterns[i], fullContext)})
        nameTokensBefore == CountNameTokens(textBeforeToken, 1)
    IN  IF r # 0 THEN rolePatterns[r].role
        ELSE IF m # 0 /\ nameTokensBefore = 0 THEN multiNamePatterns[m].roles[1]
        ELSE IF m # 0 /\ nameTokensBefore = 1 THEN multiNamePatterns[m].roles[2]
        ELSE Undefined

\* the branch for a [Name] token whose position was found
PositionBasedRole(fullInputContext, targetTokenPosition) ==
    LET textBeforeToken == toLowerCase(SubSeq(fullInputContext, 1, targetTokenPosition - 1))
        wordsBeforeToken == WordsFrom(textBeforeToken, 1)
        recentWords == RecentWords(wordsBeforeToken)
        r == FirstOf({i \in 1..Len(rolePatterns) :
                         \/ RolePatternTest(rolePatterns[i], recentWords)
                         \/ RolePatternTest(rolePatterns[i], textBeforeToken)})
        fullContext == toLowerCase(fullInputContext)
        m == FirstOf({i \in 1..Len(multiNamePatterns) :
                         MultiNameTest(multiNamePatterns[i], fullContext)})
        nameTokensBefore == CountNameTokens(textBeforeToken, 1)
    IN  IF r # 0 THEN rolePatterns[r].role
        ELSE IF m # 0
             THEN IF nameTokensBefore = 0 THEN multiNamePatterns[m].roles[1]
                  ELSE multiNamePatterns[m].roles[2]
        ELSE Undefined

NameRole(fullInputContext, tokenIndex) ==
    LET targetTokenPosition ==
            IF tokenIndex >= 0
            THEN NameTokenScan(toLowerCase(fullInputContext), 1, 0, tokenIndex)
            ELSE 0
        byPosition ==
            IF targetTokenPosition > 0
            THEN PositionBasedRole(fullInputContext, targetTokenPosition)
            ELSE Undefined
    IN  IF byPosition # Undefined THEN byPosition
        ELSE KeywordFallback(fullInputContext)

\* the resolver without the lowerPlaceholder === 'name' test before the
\* context-based branch
getRoleWithoutNameTest(placeholder, fullInputContext, tokenIndex) ==
    LET lowerPlaceholder == trim(toLowerCase(placeholder))
    IN  IF lowerPlaceholder # kw_name /\ DirectLookup(lowerPlaceholder) # Undefined
        THEN DirectLookup(lowerPlaceholder)
        ELSE IF lowerPlaceholder # kw_name /\ PartialLookup(lowerPlaceholder) # Undefined
        THEN PartialLookup(lowerPlaceholder)
        ELSE NameRole(fullInputContext, tokenIndex)

getRoleFromPlaceholder(placeholder, fullInputContext, tokenIndex) ==
    LET lowerPlaceholder == trim(toLowerCase(placeholder))
    IN  IF lowerPlaceholder # kw_name /\ DirectLookup(lowerPlaceholder) # Undefined
        THEN DirectLookup(lowerPlaceholder)
        ELSE IF lowerPlaceholder # kw_name /\ PartialLookup(lowerPlaceholder) # Undefined
        THEN PartialLookup(lowerPlaceholder)
        ELSE IF lowerPlaceholder = kw_name
        THEN NameRole(fullInputContext, tokenIndex)
        ELSE "Business Head"

----------------------------------------------------------------------------
(* RoleBasedDropdown: roleData; a catalog entry is kept as one string *)

roleData ==
       "Business Head" :>
        <<"Brijesh Shrivastava", "Sunil Kumar Pillai", "Sushant Ranshur">>
    @@ "Group Business Manager" :>
        <<"Manoranjan Rana", "Amol Bharat Dalal", "Ankit Pandey",
          "Dipanjan Ghosh", "Kanchan Ganeshrane", "Mihir Ghosh",
          "Mohamed Riyaz", "Mukundan Gs", "Saurabh Kumar", "Rupa Sharma",
          "Nagendra Bharadwaj">>
    @@ "Channel Champ" :>
        <<"Aayush Kaul", "Anu Johnson", "Chaitanya Deshmukh",
          "Adeel Ahmed", "Mohit Chugh", "Gaurav Upadhyay",
          "Himanshu Sharma", "Lalit S Sudrik">>
    @@ "Group Channel Champ" :>
        <<"Jitender Sharma", "Lalit S Sudrik", "Sathyanarayna H S",
          "Calvin Samuel">>
    @@ "Vertical Account" :>
        <<"BFSI", "Enterprises", "Government", "PSU-Gov">>
    @@ "Vertical Champ" :>
        <<"Aarun Sudhir", "Abinash Sahoo", "Adarsh Priyatam",
          "Ajay Vasoya", "Akash Singhal", "Amit Jain", "Ankit Gupta",
          "Arpit Bharti", "Atul Sharma">>
    @@ "Regional Commercial Business Manager" :>
        <<"Ankit Pandey", "Animesh Saraswat", "Aysha Nathiha A",
          "Amol Bharat Dalal", "Jalindra Chavan", "Dipanjan Ghosh",
          "Jatin Dev", "Manoranjan Rana", "Mohamed Riyaz", "Mihir Ghosh",
          "Kanchan Ganeshrane", "Mohit Bohra", "Rakesh Kumar Jena",
          "Mukundan Gs", "Nagendra Bharadwaj", "Sorabh Saraswat",
          "Rupa Sharma", "Umesh K. Muralidhar">>
    @@ "Year" :>
        <<"2022-23", "2023-24", "2024-25", "2025-26", "2026-27", "2027-28",
          "2028-29", "2029-30", "2030-31", "2031-32">>
    @@ "OEM" :>
        <<"SENTINELONE", "1KOSMOS", "A10", "AKAMAI", "ALGOSEC", "Alcatel",
          "ANOMALI", "APPNOMIC", "ARCON", "ARCSERVE", "ARISTA", "Array",
          "BLACKBERRY", "CHECKPOINT", "CLOUDFLARE", "CLOUDERA", "CLOUDSEK",
          "COHESITY", "CONFLUENT", "CYBERARK", "DELINEA", "DYNATRACE",
          "EnterpriseDB", "ENTRUST", "EXINDA", "FORCEPOINT", "FORTRA",
          "GCP CLOUD", "Github", "GOOGLE SECOPS", "GRIDGAIN",
          "GURUCUL SOLUTIONS", "HITACHI", "INNSPARK", "Instasafe",
          "KEYSIGHT", "LENOVO", "MASTERCARD", "Morphisec", "NETSCOUT",
          "NETSKOPE", "NUTANIX", "OPENTEXT", "PROGIST", "QUANTUM", "RSA",
          "RUBRIK", "Sapphire", "SOLACE", "SPLUNK", "SOTI", "STRATUS",
          "SUSE", "TENABLE", "THALES", "VANTAGEO", "WebWerks", "YUBICO">>
    @@ "Partner" :>
        <<"Techjockey Infotech Pvt Ltd", "Riskberg Consulting Pvt Ltd",
          "Anantya Infratech", "RAH Infotech Pvt Ltd",
          "Sify Technologies Ltd", "Tecmee Technologies Pvt Ltd",
          "Integre Solutions Pvt Ltd", "Golden Bright Star Pvt Ltd",
          "Infosys Ltd">>
    @@ "End Customer" :>
        <<"Infosys", "Tata Consultancy", "Wipro", "HCL Technologies",
          "Cognizant", "Accenture", "Capgemini", "IBM India">>
    @@ "Name" :>
        <<"Brijesh Shrivastava", "Sunil Kumar Pillai", "Sushant Ranshur",
          "Manoranjan Rana", "Amol Bharat Dalal", "Ankit Pandey",
          "Dipanjan Ghosh", "Kanchan Ganeshrane", "Mihir Ghosh",
          "Mohamed Riyaz", "Mukundan Gs", "Saurabh Kumar", "Rupa Sharma",
          "Nagendra Bharadwaj", "Aayush Kaul", "Anu Johnson",
          "Chaitanya Deshmukh", "Adeel Ahmed", "Mohit Chugh",
          "Gaurav Upadhyay", "Himanshu Sharma", "Lalit S Sudrik",
          "Sathyanarayna H S", "Calvin Samuel", "Aarun Sudhir",
          "Abinash Sahoo", "Adarsh Priyatam", "Ajay Vasoya",
          "Akash Singhal", "Amit Jain", "Ankit Gupta", "Arpit Bharti",
          "Atul Sharma", "Animesh Saraswat", "Aysha Nathiha A",
          "Jalindra Chavan", "Jatin Dev", "Mohit Bohra",
          "Rakesh Kumar Jena", "Sorabh Saraswat", "Umesh K. Muralidhar">>

\* roleData[actualRole] || []
Items(role) == IF role \in DOMAIN roleData THEN roleData[role] ELSE <<>>

----------------------------------------------------------------------------
(* Chat: the fallback pattern new RegExp(`\\[${escaped}\\]`, 'i') *)

RegExpMeta == {".", "*", "+", "?", "^", "$", "{", "}", "(", ")", "|", "[", "]", "\\"}

\* the literal put into the pattern source as it is
EscapeRegExpNone(s) == s

\* activeDropdown.replace(/[.*+?^${}()|[\]\\]/g, '\\$&')
RECURSIVE EscapeRegExp(_)
EscapeRegExp(s) ==
    IF s = <<>> THEN <<>>
    ELSE (IF Head(s) \in RegExpMeta THEN <<"\\", Head(s)>> ELSE <<Head(s)>>)
         \o EscapeRegExp(Tail(s))

\* the source of the fallback pattern
FallbackSource(dropdown) == <<"\\", "[">> \o EscapeRegExp(dropdown) \o <<"\\", "]">>

\* the characters of a pattern source that no backslash escapes
RECURSIVE Unescaped(_)
Unescaped(src) ==
    IF src = <<>> THEN <<>>
    ELSE IF Head(src) = "\\" /\ Len(src) >= 2 THEN Unescaped(SubSeq(src, 3, Len(src)))
    ELSE <<Head(src)>> \o Unescaped(Tail(src))

\* new RegExp(source, 'i') throws a SyntaxError: of the sources it rejects,
\* those with a group that is opened and not closed, or closed and not
\* opened
SyntaxError(src) ==
    LET u == Unescaped(src)
    IN  Cardinality({k \in 1..Len(u) : u[k] = "("})
            # Cardinality({k \in 1..Len(u) : u[k] = ")"})

\* the atoms of a pattern source: \c is the character c, . is any character,
\* any other character is itself
RECURSIVE Atoms(_)
Atoms(src) ==
    IF src = <<>> THEN <<>>
    ELSE IF Head(src) = "\\" /\ Len(src) >= 2
         THEN <<[any |-> FALSE, ch |-> src[2]]>> \o Atoms(SubSeq(src, 3, Len(src)))
    ELSE IF Head(src) = "."
         THEN <<[any |-> TRUE, ch |-> "."]>> \o Atoms(Tail(src))
    ELSE <<[any |-> FALSE, ch |-> Head(src)]>> \o Atoms(Tail(src))

\* the atoms match s at index i, ignoring case (the i flag)
AtomsMatchAt(atoms, s, i) ==
    /\ i + Len(atoms) - 1 <= Len(s)
    /\ \A k \in 1..Len(atoms) :
          atoms[k].any \/ ToLowerChar(s[i + k - 1]) = ToLowerChar(atoms[k].ch)

\* the index of the first match of the pattern in s, or 0
RegExpSearch(atoms, s) ==
    LET at == {i \in 1..(Len(s) - Len(atoms) + 1) : AtomsMatchAt(atoms, s, i)}
    IN  IF at = {} THEN 0 ELSE SetMin(at)

\* the replacement text of String.replace(pattern, value) for a string value:
\* $$ is $, $& the match, $` the text before it, $' the text after it
RECURSIVE GetSubstitution(_, _, _, _)
GetSubstitution(value, matched, before, after) ==
    IF value = <<>> THEN <<>>
    ELSE IF Head(value) = "$" /\ Len(value) >= 2 /\ value[2] \in {"$", "&", "`", "'"}
         THEN (CASE value[2] = "$" -> <<"$">>
                 [] value[2] = "&" -> matched
                 [] value[2] = "`" -> before
                 [] value[2] = "'" -> after)
              \o GetSubstitution(SubSeq(value, 3, Len(value)), matched, before, after)
    ELSE <<Head(value)>> \o GetSubstitution(Tail(value), matched, before, after)

\* a replace that appends the value when the pattern does not match
FallbackReplaceOrAppend(s, dropdown, value) ==
    LET atoms == Atoms(FallbackSource(dropdown))
        at == RegExpSearch(atoms, s)
        before == SubSeq(s, 1, at - 1)
        matched == SubSeq(s, at, at + Len(atoms) - 1)
        after == SubSeq(s, at + Len(atoms), Len(s))
    IN  IF at = 0 THEN s \o value
        ELSE before \o GetSubstitution(value, matched, before, after) \o after

\* input.replace(tokenPattern, value): the first match only (no g flag)
FallbackReplace(s, dropdown, value) ==
    LET atoms == Atoms(FallbackSource(dropdown))
        at == RegExpSearch(atoms, s)
        before == SubSeq(s, 1, at - 1)
        matched == SubSeq(s, at, at + Len(atoms) - 1)
        after == SubSeq(s, at + Len(atoms), Len(s))
    IN  IF at = 0 THEN s
        ELSE before \o GetSubstitution(value, matched, before, after) \o after

----------------------------------------------------------------------------
(* Chat: handleDropdownSelect *)

\* newInput.replace(/\[[^\]]+\]/g, (match) => ...) without the
\* replacementCount === 0 test: every equal token is replaced
RECURSIVE CallbackReplaceAllFrom(_, _, _, _, _, _)
CallbackReplaceAllFrom(s, ms, k, tokenToReplace, value, replacementCount) ==
    IF k > Len(ms)
    THEN SubSeq(s, IF Len(ms) = 0 THEN 1 ELSE ms[Len(ms)][2] + 1, Len(s))
    ELSE LET text == SubSeq(s, IF k = 1 THEN 1 ELSE ms[k - 1][2] + 1, ms[k][1] - 1)
             match == SubSeq(s, ms[k][1], ms[k][2])
             hit == toLowerCase(match) = toLowerCase(tokenToReplace)
         IN  text \o (IF hit THEN value ELSE match)
                  \o CallbackReplaceAllFrom(s, ms, k + 1, tokenToReplace, value,
                                            replacementCount)

\* newInput.replace(/\[[^\]]+\]/g, (match) => ...): the text up to the match
\* numbered k, the match or the value, and the rest
RECURSIVE CallbackReplaceFrom(_, _, _, _, _, _)
CallbackReplaceFrom(s, ms, k, tokenToReplace, value, replacementCount) ==
    IF k > Len(ms)
    THEN SubSeq(s, IF Len(ms) = 0 THEN 1 ELSE ms[Len(ms)][2] + 1, Len(s))
    ELSE LET text == SubSeq(s, IF k = 1 THEN 1 ELSE ms[k - 1][2] + 1, ms[k][1] - 1)
             match == SubSeq(s, ms[k][1], ms[k][2])
             hit == /\ toLowerCase(match) = toLowerCase(tokenToReplace)
                    /\ replacementCount = 0
         IN  text \o (IF hit THEN value ELSE match)
                  \o CallbackReplaceFrom(s, ms, k + 1, tokenToReplace, value,
                         IF hit THEN replacementCount + 1 ELSE replacementCount)

\* the state "no dropdown": activeDropdown === null
Null == <<"null">>

\* if (activeDropdown): neither null nor the empty string
Truthy(dropdown) == dropdown # Null /\ dropdown # <<>>

\* tokens.findIndex((token, index) => token.toLowerCase() ===
\*   tokenToReplace.toLowerCase() && index >= currentTokenIndex), 0-based,
\* -1 when there is none
MatchingTokenIndex(toks, tokenToReplace, tokenIndex) ==
    LET hit == {k \in 1..Len(toks) :
                   /\ toLowerCase(toks[k]) = toLowerCase(tokenToReplace)
                   /\ k - 1 >= tokenIndex}
    IN  IF hit = {} THEN -1 ELSE SetMin(hit) - 1

\* the new input that handleDropdownSelect computes
SelectResult(inp, dropdown, tokenIndex, value) ==
    LET toks == matchTokens(inp)
        tokenToReplace == <<"[">> \o dropdown \o <<"]">>
    IN  IF tokenIndex >= 0 /\ tokenIndex < Len(toks)
        THEN IF MatchingTokenIndex(toks, tokenToReplace, tokenIndex) >= 0
             THEN CallbackReplaceFrom(inp, TokenMatches(inp), 1, tokenToReplace, value, 0)
             ELSE FallbackReplace(inp, dropdown, value)
        ELSE FallbackReplace(inp, dropdown, value)

\* handleDropdownSelect leaves by an exception: one of the two fallback
\* branches runs and new RegExp throws
SelectThrows(inp, dropdown, tokenIndex) ==
    LET toks == matchTokens(inp)
        tokenToReplace == <<"[">> \o dropdown \o <<"]">>
        indexBranch == /\ tokenIndex >= 0 /\ tokenIndex < Len(toks)
                       /\ MatchingTokenIndex(toks, tokenToReplace, tokenIndex) >= 0
    IN  ~indexBranch /\ SyntaxError(FallbackSource(dropdown))

----------------------------------------------------------------------------
(* TokenInput: handleTokenClick *)

\* tokens.findIndex(t => t.key === key), 0-based
FindIndexByKey(toks, key) == SetMin({k \in 1..Len(toks) : toks[k].key = key}) - 1

\* let tokenTypeIndex = ...
TokenTypeIndex(toks, token) ==
    IF toLowerCase(token.content) = kw_name
    THEN LET tokensBeforeThis == SubSeq(toks, 1, FindIndexByKey(toks, token.key))
         IN  Len(SelectSeq(tokensBeforeThis,
                 LAMBDA t : t.type = "token" /\ toLowerCase(t.content) = kw_name))
    ELSE FindIndexByKey(SelectSeq(toks, LAMBDA t : t.type = "token"), token.key)

----------------------------------------------------------------------------
(* Inputs *)

\* the texts made of at most n fragments of V
FragTexts(V, n) == {Concat(f) : f \in UNION {[1..k -> V] : k \in 0..n}}

ExBusinessHeadVsOem == <<"[", "B", "u", "s", "i", "n", "e", "s", "s", " ", "H", "e", "a", "d", "]", " ", "v", "s", " ", "[", "O", "E", "M", "]">>
ExUnterminated == <<"[", "O", "E", "M">>
ExEmptyBrackets == <<"[", "]">>
ExEmptyBracketsClose == <<"[", "]", "]">>
ExCompareNames == <<"C", "o", "m", "p", "a", "r", "e", " ", "[", "B", "u", "s", "i", "n", "e", "s", "s", " ", "H", "e", "a", "d", "]", " ", "[", "N", "a", "m", "e", "]", " ", "w", "i", "t", "h", " ", "[", "O", "E", "M", "]", " ", "[", "N", "a", "m", "e", "]">>
ExNoRoleHints == <<"j", "u", "s", "t", " ", "s", "o", "m", "e", " ", "t", "e", "x", "t", " ", "w", "i", "t", "h", " ", "n", "o", " ", "r", "o", "l", "e", " ", "h", "i", "n", "t", "s">>
ExOemPartnered == <<"[", "O", "E", "M", "]", " ", "p", "a", "r", "t", "n", "e", "r", "e", "d", " ", "w", "i", "t", "h", " ", "[", "O", "E", "M", "]">>
ExCiscoPartnered == <<"C", "i", "s", "c", "o", " ", "p", "a", "r", "t", "n", "e", "r", "e", "d", " ", "w", "i", "t", "h", " ", "[", "O", "E", "M", "]">>
ExOemAccountName == <<"o", "e", "m", " ", "a", "c", "c", "o", "u", "n", "t", " ", "[", "N", "a", "m", "e", "]", " ", "f", "o", "r", " ", "p", "a", "r", "t", "n", "e", "r">>
ExOemFarAccountNear == <<"o", "e", "m", " ", "a", " ", "b", " ", "c", " ", "d", " ", "e", " ", "a", "c", "c", "o", "u", "n", "t", " ", "[", "N", "a", "m", "e", "]">>
ExThreeNames == <<"[", "N", "a", "m", "e", "]", " ", "[", "N", "a", "m", "e", "]", " ", "[", "N", "a", "m", "e", "]", " ", "b", "u", "s", "i", "n", "e", "s", "s", " ", "h", "e", "a", "d", " ", "w", "i", "t", "h", " ", "o", "e", "m">>
ExChampPartner == <<"[", "N", "a", "m", "e", "]", " ", "a", "n", "d", " ", "[", "N", "a", "m", "e", "]", " ", "g", "r", "o", "u", "p", " ", "c", "h", "a", "n", "n", "e", "l", " ", "c", "h", "a", "m", "p", " ", "p", "a", "r", "t", "n", "e", "r">>
ExGroupBusinessManager == <<"[", "N", "a", "m", "e", "]", " ", "g", "r", "o", "u", "p", " ", "b", "u", "s", "i", "n", "e", "s", "s", " ", "m", "a", "n", "a", "g", "e", "r">>

\* the parser is run on every string of at most MaxLen of these characters
ParseAlphabet == {"[", "]", "a", "B", " "}
ParseInputs ==
    UNION {[1..k -> ParseAlphabet] : k \in 0..MaxLen}
    \cup {ExBusinessHeadVsOem, ExUnterminated, ExEmptyBrackets, ExEmptyBracketsClose}

\* what is typed into the Chat input, one fragment at a time
f_OEM == <<"[", "O", "E", "M", "]">>
f_oem == <<"[", "o", "e", "m", "]">>
f_Name == <<"[", "N", "a", "m", "e", "]">>
f_partnered == <<" ", "p", "a", "r", "t", "n", "e", "r", "e", "d", " ", "w", "i", "t", "h", " ">>
ChatFragments == {f_OEM, f_oem, f_Name, f_partnered}

\* tokens with blanks inside the brackets, typed the same way
f_OEM_padded == <<"[", " ", "O", "E", "M", " ", "]">>
f_blank == <<"[", " ", "]">>
PaddedFragments == {f_OEM, f_OEM_padded, f_blank}

\* the values handed to handleDropdownSelect
v_Cisco == <<"C", "i", "s", "c", "o">>
v_Dollar == <<"$", "&">>
Values == {v_Cisco, v_Dollar}

\* fragments, literals and inputs handed to handleDropdownSelect on its own
s_nested == <<"[", "[", "a", "]">>
s_a == <<"[", "a", "]">>
s_A == <<"[", "A", "]">>
s_dot == <<"[", ".", "]">>
s_paren == <<"[", "(", "]">>
s_padded == <<"[", " ", "a", " ", "]">>
s_x == <<"x">>
SelectFragments == {s_nested, s_a, s_A, s_dot, s_paren, s_padded, s_x}
SelectInputs == FragTexts(SelectFragments, MaxSelFrags)
lit_a == <<"a">>
lit_dot == <<".">>
lit_paren == <<"(">>
SelectLiterals == {Null, <<>>, lit_a, lit_dot, lit_paren}

\* the literal contents handed to the resolver
lit_Name_padded == <<" ", "N", "a", "m", "e", " ">>
lit_OEM_upper == <<"O", "E", "M">>
lit_xyz == <<"x", "y", "z">>
lit_gcc_name == <<"g", "r", "o", "u", "p", " ", "c", "h", "a", "n", "n", "e", "l", " ", "c", "h", "a", "m", "p", " ", "n", "a", "m", "e">>
lit_oem_partner == <<"o", "e", "m", " ", "p", "a", "r", "t", "n", "e", "r">>
lit_my_account == <<"m", "y", " ", "a", "c", "c", "o", "u", "n", "t">>
ResolveLiterals ==
    {directRoleMapping[i][1] : i \in 1..Len(directRoleMapping)}
    \cup {kw_name, lit_Name_padded, <<>>, kw_constructor, kw_proto, lit_xyz,
          lit_OEM_upper, lit_gcc_name, lit_oem_partner, lit_my_account}

\* the full texts handed to the resolver
c_Name == <<"[", "N", "a", "m", "e", "]">>
c_space == <<" ">>
c_oem == <<"o", "e", "m">>
c_with == <<"w", "i", "t", "h">>
c_business_head == <<"B", "u", "s", "i", "n", "e", "s", "s", " ", "H", "e", "a", "d">>
c_x == <<"x">>
c_account == <<"a", "c", "c", "o", "u", "n", "t">>
ContextFragments == {c_Name, c_space, c_oem, c_with, c_business_head, c_x, c_account}
ResolveTexts ==
    FragTexts(ContextFragments, MaxCtxFrags)
    \cup {ExCompareNames, ExNoRoleHints, ExOemAccountName, ExOemFarAccountNear,
          ExThreeNames, ExChampPartner, ExGroupBusinessManager}

----------------------------------------------------------------------------
(* QuestionPanel: the values extracted from the uploaded dataset. A row is *)
(* a function from column names to cells, a cell is a string or a number, *)
(* a value is kept as one string.                                          *)

\* the prop when App passes none (undefined), and when it passes rows
NoData == [given |-> FALSE, rows |-> <<>>]
Data(rows) == [given |-> TRUE, rows |-> rows]

NoCell == [kind |-> "undefined", text |-> ""]
NoValue == "undefined"

\* String.prototype.trim on the cell texts of the datasets
TrimCell(text) ==
    CASE text = " Acme " -> "Acme"
      [] text = "   " -> ""
      [] OTHER -> text

\* (a, b) => a.localeCompare(b) on the values of the datasets
LocaleOrder == <<"42", "Acme", "Zeta">>

\* Array.from(values).sort(...)
RECURSIVE SortedValues(_, _)
SortedValues(order, values) ==
    IF order = <<>> THEN <<>>
    ELSE (IF Head(order) \in values THEN <<Head(order)>> ELSE <<>>)
         \o SortedValues(Tail(order), values)

\* for (const key of possibleKeys) {...}: the value that a row adds, from
\* the first key with a non-blank string or a non-zero number
RECURSIVE RowValue(_, _, _)
RowValue(row, possibleKeys, n) ==
    IF n > Len(possibleKeys) THEN NoValue
    ELSE LET key == possibleKeys[n]
             cell == IF key \in DOMAIN row THEN row[key] ELSE NoCell
         IN  IF cell.kind = "string" /\ cell.text # "" /\ TrimCell(cell.text) # ""
             THEN TrimCell(cell.text)
             ELSE IF cell.kind = "number" /\ cell.text # "0"
             THEN cell.text
             ELSE RowValue(row, possibleKeys, n + 1)

extractColumn(data, possibleKeys) ==
    SortedValues(LocaleOrder,
                 {RowValue(data[r], possibleKeys, 1) : r \in 1..Len(data)} \ {NoValue})

\* the lists of extractUniqueValues that belong to a role of the dropdown
NoExtracted == [oems |-> <<>>, partners |-> <<>>, businessHeads |-> <<>>]

extractUniqueValues(data) ==
    IF Len(data) = 0 THEN NoExtracted
    ELSE [oems |-> extractColumn(data, <<"OEM", "oem", "Oem", "Vendor", "Manufacturer", "Product">>),
          partners |-> extractColumn(data, <<"Partner", "partner", "Channel Partner", "Distributor", "Reseller">>),
          businessHeads |-> extractColumn(data, <<"Business Head", "businessHead", "BH", "Head", "Sales Head">>)]

\* const extractedValues = uploadedData ? extractUniqueValues(uploadedData) : {...}
extractedValues(data) == IF data.given THEN extractUniqueValues(data.rows) ELSE NoExtracted

\* rows and datasets handed to the panel
row_oem == [OEM |-> [kind |-> "string", text |-> " Acme "]]
row_vendor == [Vendor |-> [kind |-> "string", text |-> "Zeta"],
               Partner |-> [kind |-> "string", text |-> "Acme"]]
row_blank == [OEM |-> [kind |-> "string", text |-> "   "],
              Partner |-> [kind |-> "number", text |-> "42"]]
Rows == {row_oem, row_vendor, row_blank}
Datasets == {NoData} \cup {Data(rows) : rows \in UNION {[1..n -> Rows] : n \in 0..MaxRows}}

----------------------------------------------------------------------------
(* Chat: messages and requests; QuestionPanel: options and categories *)

\* { text, sender } of a message (emoji and hasTable are functions of text)
UserMessage(text) == [text |-> text, sender |-> "user"]
BotMessage(text) == [text |-> text, sender |-> "bot"]

\* an axios.post call: the handler that awaits it; id numbers the calls
Request(id, kind) == [id |-> id, kind |-> kind]

\* response.data.response of /query and /auto-query
Responses == {"response"}
QueryErrorText == "Sorry, I couldn't process your request. Please try again."
UploadedText == "File uploaded successfully!"
UploadErrorText == "Failed to upload file. Please try again."

\* the text of the bot message appended when the awaited call settles: the
\* try branch when it resolved, the catch branch when it rejected
BotTexts(kind, ok) ==
    IF kind = "upload"
    THEN (IF ok THEN {UploadedText} ELSE {UploadErrorText})
    ELSE (IF ok THEN Responses ELSE {QueryErrorText})

\* e.target.files[0]
f_xlsx == <<"d", "a", "t", "a", ".", "x", "l", "s", "x">>
Files == {f_xlsx}

\* what is typed into the empty input before a send
q_hi == <<"h", "i">>
Queries == {q_hi}

\* the twelve show...Options flags, in the order of the render chain, and
\* the type handed to handleGenericSelect by each options container
OptionNames ==
    {"Year", "Region", "OEM", "Partner", "EndCustomer", "VerticalAccount",
     "Channel", "BusinessHead", "BusinessManager", "GroupBusinessManager",
     "ChannelHead", "GroupChannelChamp"}
GenericType ==
    [Region |-> "region", OEM |-> "OEM", Partner |-> "partner",
     EndCustomer |-> "end customer", VerticalAccount |-> "vertical account",
     Channel |-> "channel", BusinessHead |-> "business head",
     BusinessManager |-> "business manager",
     GroupBusinessManager |-> "group business manager",
     ChannelHead |-> "channel head", GroupChannelChamp |-> "group channel champ"]

\* the first entry of each static option list (App passes no uploadedData
\* to QuestionPanel, so extractedValues is empty)
FirstOption ==
    [Year |-> "2022-23", Region |-> "North", OEM |-> "SENTINELONE",
     Partner |-> "Techjockey Infotech Pvt Ltd",
     EndCustomer |-> "Rattan India Group", VerticalAccount |-> "BFSI",
     Channel |-> "Tier-1", BusinessHead |-> "Brijesh Shrivastava",
     BusinessManager |-> "Mohit Bohra", GroupBusinessManager |-> "Saurabh Kumar",
     ChannelHead |-> "Jitender Sharma", GroupChannelChamp |-> "Jitender Sharma"]

\* `show performance for ${type} ${item}` and
\* `generate regional performance table for ${year}`, as their pieces
GenericCommand(item, type) == <<"show performance for ", type, " ", item>>
YearCommand(year) == <<"generate regional performance table for ", year>>

\* mainCategories[..].id; selectedMainCategory === null
MainCategories == {"individual-roles", "cross-functional"}
NoCategory == "null"
NoClick == "none"

\* resetAllOptions on the flags
resetAllOptions == [o \in OptionNames |-> FALSE]

\* the state a setter holds after several calls in one handler: the value
\* of the last call
LastSet(values) == values[Len(values)]

----------------------------------------------------------------------------
(* State after construction, and the handlers *)

NoRole == "none"
NoSegment == [type |-> "none"]

\* const actualRole = getRoleFromPlaceholder(role, tokenIndex), when Chat
\* renders the dropdown ({activeDropdown && <RoleBasedDropdown .../>})
RenderRole(dropdown, fullInputContext, tokenIndex) ==
    IF Truthy(dropdown)
    THEN getRoleFromPlaceholder(dropdown, fullInputContext, tokenIndex)
    ELSE NoRole

\* const items = roleData[actualRole] || [], when the dropdown is rendered
RenderItems(role) == IF role = NoRole THEN <<>> ELSE Items(role)

\* x: tokenRect.left - containerRect.left, y: tokenRect.bottom -
\* containerRect.top, for tokens laid out on one line in the order of their
\* keys
PositionOf(token) == [x |-> token.key, y |-> 1]

NoHistory ==
    /\ prevInput' = <<>>
    /\ prevDropdown' = Null
    /\ prevTokenIndex' = -1
    /\ selValue' = Null

\* the useState initial values of Chat besides input, activeDropdown and
\* currentTokenIndex
ChatInitial ==
    /\ messages = <<>>
    /\ isLoading = FALSE
    /\ file = Null
    /\ showSuggestions = TRUE
    /\ dropdownPosition = [x |-> 0, y |-> 0]

\* no request was made yet
RequestsIdle ==
    /\ inFlight = {}
    /\ started = 0

\* the useState initial values of QuestionPanel
PanelInitial ==
    /\ selectedMainCategory = NoCategory
    /\ selectedSubCategory = NoCategory
    /\ showOptions = [o \in OptionNames |-> FALSE]
    /\ panelIsLoading = FALSE
    /\ panelClicked = NoClick
    /\ prevMainCategory = NoCategory

\* no call of handleDropdownSelect yet
HistoryInitial ==
    /\ prevInput = <<>>
    /\ prevDropdown = Null
    /\ prevTokenIndex = -1
    /\ selValue = Null

\* getRoleFromPlaceholder is not running
ScanIdle ==
    /\ scanLastIndex = 1
    /\ scanCount = 0
    /\ scanTarget = 0

Init ==
    /\ input = <<>>
    /\ tokens = <<>>
    /\ activeDropdown = Null
    /\ currentTokenIndex = -1
    /\ actualRole = NoRole
    /\ items = <<>>
    /\ uploadedData = NoData
    /\ ChatInitial
    /\ ScanIdle
    /\ pc = "init"
    /\ HistoryInitial
    /\ RequestsIdle
    /\ PanelInitial
    /\ clicked = NoSegment
    /\ typed = 0

\* TokenInput.handleInputChange -> onChange = setInput; the parse effect and
\* the render of the dropdown follow
handleInputChange(value) ==
    /\ input' = value
    /\ tokens' = parseTokens(value)
    /\ actualRole' = RenderRole(activeDropdown, value, currentTokenIndex)
    /\ items' = RenderItems(actualRole')
    /\ pc' = "change"
    /\ clicked' = NoSegment
    /\ typed' = (IF value = <<>> THEN 0 ELSE typed + 1)
    /\ NoHistory
    /\ UNCHANGED <<requestVars, panelVars>>
    /\ UNCHANGED <<activeDropdown, currentTokenIndex, dropdownPosition,
                   chatOther, scanVars, uploadedData>>

\* TokenInput.handleTokenClick -> onTokenClick = Chat.handleTokenClick
handleTokenClick(token) ==
    /\ token.type = "token"
    /\ dropdownPosition' = PositionOf(token)
    /\ activeDropdown' = token.content
    /\ currentTokenIndex' = TokenTypeIndex(tokens, token)
    /\ actualRole' = RenderRole(token.content, input, TokenTypeIndex(tokens, token))
    /\ items' = RenderItems(actualRole')
    /\ pc' = "click"
    /\ clicked' = token
    /\ NoHistory
    /\ UNCHANGED <<requestVars, panelVars>>
    /\ UNCHANGED <<input, tokens, typed, chatOther, scanVars, uploadedData>>

\* Chat.handleDropdownSelect also resetting the suggestions, the way
\* handleSuggestionClick does
handleDropdownSelectHidingSuggestions(value) ==
    /\ prevInput' = input
    /\ prevDropdown' = activeDropdown
    /\ prevTokenIndex' = currentTokenIndex
    /\ selValue' = value
    /\ showSuggestions' = FALSE
    /\ UNCHANGED <<requestVars, panelVars>>
    /\ UNCHANGED <<typed, dropdownPosition, messages, isLoading, file, scanVars,
                   uploadedData>>
    /\ IF Truthy(activeDropdown)
       THEN IF SelectThrows(input, activeDropdown, currentTokenIndex)
            THEN /\ pc' = "selectThrew"
                 /\ UNCHANGED <<input, tokens, activeDropdown, currentTokenIndex,
                                actualRole, items, clicked>>
            ELSE /\ input' = SelectResult(input, activeDropdown, currentTokenIndex, value)
                 /\ tokens' = parseTokens(input')
                 /\ activeDropdown' = Null
                 /\ currentTokenIndex' = -1
                 /\ actualRole' = NoRole
                 /\ items' = <<>>
                 /\ pc' = "select"
                 /\ UNCHANGED clicked
       ELSE /\ pc' = "selectIgnored"
            /\ clicked' = NoSegment
            /\ UNCHANGED <<input, tokens, activeDropdown, currentTokenIndex,
                           actualRole, items>>

\* Chat.handleDropdownSelect; an exception of new RegExp leaves the handler
\* before any setter ran
handleDropdownSelect(value) ==
    /\ prevInput' = input
    /\ prevDropdown' = activeDropdown
    /\ prevTokenIndex' = currentTokenIndex
    /\ selValue' = value
    /\ UNCHANGED <<requestVars, panelVars>>
    /\ UNCHANGED <<typed, dropdownPosition, chatOther, scanVars, uploadedData>>
    /\ IF Truthy(activeDropdown)
       THEN IF SelectThrows(input, activeDropdown, currentTokenIndex)
            THEN /\ pc' = "selectThrew"
                 /\ UNCHANGED <<input, tokens, activeDropdown, currentTokenIndex,
                                actualRole, items, clicked>>
            ELSE /\ input' = SelectResult(input, activeDropdown, currentTokenIndex, value)
                 /\ tokens' = parseTokens(input')
                 /\ activeDropdown' = Null
                 /\ currentTokenIndex' = -1
                 /\ actualRole' = NoRole
                 /\ items' = <<>>
                 /\ pc' = "select"
                 /\ UNCHANGED clicked
       ELSE /\ pc' = "selectIgnored"
            /\ clicked' = NoSegment
            /\ UNCHANGED <<input, tokens, activeDropdown, currentTokenIndex,
                           actualRole, items>>

\* the onClose prop of the dropdown (close button, mousedown outside it)
onClose ==
    /\ Truthy(activeDropdown)
    /\ activeDropdown' = Null
    /\ currentTokenIndex' = -1
    /\ actualRole' = NoRole
    /\ items' = <<>>
    /\ pc' = "close"
    /\ clicked' = NoSegment
    /\ NoHistory
    /\ UNCHANGED <<requestVars, panelVars>>
    /\ UNCHANGED <<input, tokens, typed, dropdownPosition, chatOther, scanVars,
                   uploadedData>>

\* Chat's mousedown listener, registered while activeDropdown is set
handleClickOutside ==
    /\ Truthy(activeDropdown)
    /\ activeDropdown' = Null
    /\ currentTokenIndex' = -1
    /\ actualRole' = NoRole
    /\ items' = <<>>
    /\ pc' = "clickOutside"
    /\ clicked' = NoSegment
    /\ NoHistory
    /\ UNCHANGED <<requestVars, panelVars>>
    /\ UNCHANGED <<input, tokens, typed, dropdownPosition, chatOther, scanVars,
                   uploadedData>>

\* the user types or pastes a fragment at the end of the input
TypeText == \E f \in ChatFragments : typed < MaxFrags /\ handleInputChange(input \o f)

\* the user empties the input
ClearText == input # <<>> /\ handleInputChange(<<>>)

\* the user clicks one of the rendered segments
ClickToken == \E k \in 1..Len(tokens) : handleTokenClick(tokens[k])

\* the user picks a value of the dropdown
SelectValue == \E value \in Values : handleDropdownSelect(value)

Next ==
    \/ TypeText
    \/ ClearText
    \/ ClickToken
    \/ SelectValue
    \/ onClose
    \/ handleClickOutside

Spec == Init /\ [][Next]_vars

\* Chat with tokens that hold blanks inside the brackets
TypePadded == \E f \in PaddedFragments : typed < MaxFrags /\ handleInputChange(input \o f)

NextPadded ==
    \/ TypePadded
    \/ ClearText
    \/ ClickToken
    \/ SelectValue
    \/ onClose
    \/ handleClickOutside

SpecPadded == Init /\ [][NextPadded]_vars

----------------------------------------------------------------------------
(* The parser on its own: TokenInput mounted with a value *)

InitParse ==
    /\ input \in ParseInputs
    /\ tokens = <<>>
    /\ activeDropdown = Null
    /\ currentTokenIndex = -1
    /\ actualRole = NoRole
    /\ items = <<>>
    /\ uploadedData = NoData
    /\ ChatInitial
    /\ ScanIdle
    /\ pc = "mounted"
    /\ HistoryInitial
    /\ RequestsIdle
    /\ PanelInitial
    /\ clicked = NoSegment
    /\ typed = 0

\* useEffect(() => {...}, [value])
ParseEffect ==
    /\ pc = "mounted"
    /\ tokens' = parseTokens(input)
    /\ pc' = "parsed"
    /\ UNCHANGED <<requestVars, panelVars>>
    /\ UNCHANGED <<input, activeDropdown, currentTokenIndex, actualRole, items,
                   history, clicked, typed, dropdownPosition, chatOther,
                   scanVars, uploadedData>>

NextParse == ParseEffect

SpecParse == InitParse /\ [][NextParse]_vars

----------------------------------------------------------------------------
(* The resolver on its own: RoleBasedDropdown mounted with role,           *)
(* fullInputContext and tokenIndex                                         *)

InitResolve ==
    /\ input \in ResolveTexts
    /\ tokens = <<>>
    /\ activeDropdown \in ResolveLiterals
    /\ currentTokenIndex \in -1..MaxIdx
    /\ actualRole = NoRole
    /\ items = <<>>
    /\ uploadedData = NoData
    /\ ChatInitial
    /\ ScanIdle
    /\ pc = "mounted"
    /\ HistoryInitial
    /\ RequestsIdle
    /\ PanelInitial
    /\ clicked = NoSegment
    /\ typed = 0

\* const actualRole = getRoleFromPlaceholder(role, tokenIndex);
\* const items = roleData[actualRole] || []
Render ==
    /\ pc = "mounted"
    /\ actualRole' = getRoleFromPlaceholder(activeDropdown, input, currentTokenIndex)
    /\ items' = Items(actualRole')
    /\ pc' = "rendered"
    /\ UNCHANGED <<requestVars, panelVars>>
    /\ UNCHANGED <<input, tokens, activeDropdown, currentTokenIndex, history,
                   clicked, typed, dropdownPosition, chatOther, scanVars,
                   uploadedData>>

NextResolve == Render

SpecResolve == InitResolve /\ [][NextResolve]_vars

----------------------------------------------------------------------------
(* handleDropdownSelect on its own: Chat holding any input, any literal of *)
(* an earlier click and any stored index                                   *)

\* Chat before a request and during one, after clicks on a token
\* (during: an upload and a query of the panel are in flight)
ChatIdle == [messages |-> <<>>, isLoading |-> FALSE, file |-> Null,
             showSuggestions |-> TRUE, dropdownPosition |-> [x |-> 0, y |-> 1],
             inFlight |-> {}, started |-> 0]
ChatBusy == [messages |-> <<UserMessage(GenericCommand("SENTINELONE", "OEM"))>>,
             isLoading |-> TRUE, file |-> f_xlsx, showSuggestions |-> FALSE,
             dropdownPosition |-> [x |-> 2, y |-> 1],
             inFlight |-> {Request(1, "upload"), Request(2, "auto")},
             started |-> 2]

InitSelect ==
    /\ input \in SelectInputs
    /\ tokens = parseTokens(input)
    /\ activeDropdown \in SelectLiterals
    /\ currentTokenIndex \in (IF activeDropdown = Null THEN {-1} ELSE -1..MaxSelIdx)
    /\ actualRole = RenderRole(activeDropdown, input, currentTokenIndex)
    /\ items = RenderItems(actualRole)
    /\ uploadedData = NoData
    /\ \E chat \in {ChatIdle, ChatBusy} :
          /\ messages = chat.messages
          /\ isLoading = chat.isLoading
          /\ file = chat.file
          /\ showSuggestions = chat.showSuggestions
          /\ dropdownPosition = chat.dropdownPosition
          /\ inFlight = chat.inFlight
          /\ started = chat.started
    /\ ScanIdle
    /\ pc = "mounted"
    /\ HistoryInitial
    /\ PanelInitial
    /\ clicked = NoSegment
    /\ typed = 0

NextSelect == SelectValue

SpecSelect == InitSelect /\ [][NextSelect]_vars

----------------------------------------------------------------------------
(* getRoleFromPlaceholder step by step: one step for each iteration of the *)
(* while loop over nameTokenRegex                                          *)

sc_oem == <<"o", "e", "m">>
ScanLiterals == {kw_name, lit_Name_padded, sc_oem, lit_xyz}
ScanTexts == FragTexts({c_Name, c_oem, c_x}, MaxScanFrags)

\* the parts of getRoleFromPlaceholder outside the loop, tabulated for the
\* texts, literals and indexes of this specification
ScanWholeCall ==
    [t \in ScanTexts |-> [l \in ScanLiterals |-> [i \in -1..MaxIdx |->
        getRoleFromPlaceholder(l, t, i)]]]
ScanPositionBasedRole ==
    [t \in ScanTexts |-> [p \in 1..Len(t) |-> PositionBasedRole(t, p)]]
ScanKeywordFallback == [t \in ScanTexts |-> KeywordFallback(t)]

\* Chat without a dropdown
InitScan ==
    /\ input = <<>>
    /\ tokens = <<>>
    /\ activeDropdown = Null
    /\ currentTokenIndex = -1
    /\ actualRole = NoRole
    /\ items = <<>>
    /\ uploadedData = NoData
    /\ ChatInitial
    /\ ScanIdle
    /\ pc = "init"
    /\ HistoryInitial
    /\ RequestsIdle
    /\ PanelInitial
    /\ clicked = NoSegment
    /\ typed = 0

\* Chat renders <RoleBasedDropdown role={activeDropdown}
\* fullInputContext={input} tokenIndex={currentTokenIndex} />
ScanMount ==
    /\ pc = "init"
    /\ input' \in ScanTexts
    /\ activeDropdown' \in ScanLiterals
    /\ currentTokenIndex' \in -1..MaxIdx
    /\ pc' = "mounted"
    /\ UNCHANGED <<requestVars, panelVars>>
    /\ UNCHANGED <<tokens, actualRole, items, history, clicked, typed,
                   dropdownPosition, chatOther, scanVars, uploadedData>>

\* the call up to the while loop, or the whole call when the loop is not
\* reached: if (lowerPlaceholder === 'name') ... if (tokenIndex >= 0)
ScanEnter ==
    /\ pc = "mounted"
    /\ IF trim(toLowerCase(activeDropdown)) = kw_name /\ currentTokenIndex >= 0
       THEN /\ pc' = "scan"
            /\ UNCHANGED <<actualRole, items>>
       ELSE /\ actualRole' = ScanWholeCall[input][activeDropdown][currentTokenIndex]
            /\ items' = Items(actualRole')
            /\ pc' = "rendered"
    /\ UNCHANGED <<requestVars, panelVars>>
    /\ UNCHANGED <<input, tokens, activeDropdown, currentTokenIndex, history,
                   clicked, typed, dropdownPosition, chatOther, scanVars,
                   uploadedData>>

\* an iteration that neither advances lastIndex nor counts the match
ScanStepStuck ==
    /\ pc = "scan"
    /\ LET at == indexOf(toLowerCase(input), kw_bracket_name, scanLastIndex)
       IN  IF at = 0
           THEN /\ scanLastIndex' = 1
                /\ pc' = "scanned"
                /\ UNCHANGED <<scanCount, scanTarget>>
           ELSE IF scanCount = currentTokenIndex
           THEN /\ scanLastIndex' = at + Len(kw_bracket_name)
                /\ scanTarget' = at
                /\ pc' = "scanned"
                /\ UNCHANGED scanCount
           ELSE UNCHANGED <<scanLastIndex, scanCount, scanTarget, pc>>
    /\ UNCHANGED <<requestVars, panelVars>>
    /\ UNCHANGED <<input, tokens, activeDropdown, currentTokenIndex, actualRole,
                   items, history, clicked, typed, dropdownPosition, chatOther,
                   uploadedData>>

\* while ((match = nameTokenRegex.exec(fullInputContext)) !== null) {...}:
\* exec searches from lastIndex, sets lastIndex behind the match, and sets
\* it to 0 when there is no match
ScanStep ==
    /\ pc = "scan"
    /\ LET at == indexOf(toLowerCase(input), kw_bracket_name, scanLastIndex)
       IN  IF at = 0
           THEN /\ scanLastIndex' = 1
                /\ pc' = "scanned"
                /\ UNCHANGED <<scanCount, scanTarget>>
           ELSE IF scanCount = currentTokenIndex
           THEN /\ scanLastIndex' = at + Len(kw_bracket_name)
                /\ scanTarget' = at
                /\ pc' = "scanned"
                /\ UNCHANGED scanCount
           ELSE /\ scanLastIndex' = at + Len(kw_bracket_name)
                /\ scanCount' = scanCount + 1
                /\ UNCHANGED <<scanTarget, pc>>
    /\ UNCHANGED <<requestVars, panelVars>>
    /\ UNCHANGED <<input, tokens, activeDropdown, currentTokenIndex, actualRole,
                   items, history, clicked, typed, dropdownPosition, chatOther,
                   uploadedData>>

\* the call after the loop: the position-based detection when the target
\* was found, then the keyword fallback
ScanReturn ==
    /\ pc = "scanned"
    /\ LET byPosition == IF scanTarget > 0
                          THEN ScanPositionBasedRole[input][scanTarget]
                          ELSE Undefined
       IN  actualRole' = (IF byPosition # Undefined THEN byPosition
                          ELSE ScanKeywordFallback[input])
    /\ items' = Items(actualRole')
    /\ pc' = "rendered"
    /\ UNCHANGED <<requestVars, panelVars>>
    /\ UNCHANGED <<input, tokens, activeDropdown, currentTokenIndex, history,
                   clicked, typed, dropdownPosition, chatOther, scanVars,
                   uploadedData>>

NextScan ==
    \/ ScanMount
    \/ ScanEnter
    \/ ScanStep
    \/ ScanReturn

\* a call runs to its end: JavaScript runs a function without interruption
SpecScan ==
    /\ InitScan
    /\ [][NextScan]_vars
    /\ WF_vars(ScanEnter)
    /\ WF_vars(ScanStep)
    /\ WF_vars(ScanReturn)

----------------------------------------------------------------------------
(* The dropdown rendered while the panel holds an uploaded dataset        *)

CatalogLiterals == {kw_oem, kw_partner, kw_business_head, kw_name, lit_xyz}
CatalogTexts == {<<>>, ExCompareNames}

InitCatalog ==
    /\ input \in CatalogTexts
    /\ tokens = <<>>
    /\ activeDropdown \in CatalogLiterals
    /\ currentTokenIndex \in {-1, 0, 1}
    /\ actualRole = NoRole
    /\ items = <<>>
    /\ uploadedData \in Datasets
    /\ ChatInitial
    /\ ScanIdle
    /\ pc = "mounted"
    /\ HistoryInitial
    /\ RequestsIdle
    /\ PanelInitial
    /\ clicked = NoSegment
    /\ typed = 0

NextCatalog == Render

SpecCatalog == InitCatalog /\ [][NextCatalog]_vars

----------------------------------------------------------------------------
(* Chat: handleSendMessage, handleAutoExecuteQuery, handleFileUpload and   *)
(* the continuation of each after its awaited axios.post; QuestionPanel:   *)
(* the quick-action buttons, the option selections, the main categories    *)

chatTokenVars == <<input, tokens, activeDropdown, currentTokenIndex,
                   dropdownPosition, actualRole, items, uploadedData, scanVars,
                   history, clicked, typed>>

\* Chat.handleFormSubmit -> handleSendMessage(): messageToSend = input; the
\* submit button is disabled={isLoading || !input.trim()}
handleSendMessage ==
    /\ ~isLoading
    /\ trim(input) # <<>>
    /\ started < MaxRequests
    /\ messages' = Append(messages, UserMessage(input))
    /\ input' = <<>>
    /\ tokens' = parseTokens(input')
    /\ actualRole' = RenderRole(activeDropdown, input', currentTokenIndex)
    /\ items' = RenderItems(actualRole')
    /\ showSuggestions' = FALSE
    /\ isLoading' = TRUE
    /\ inFlight' = inFlight \cup {Request(started + 1, "send")}
    /\ started' = started + 1
    /\ typed' = 0
    /\ clicked' = NoSegment
    /\ NoHistory
    /\ pc' = "send"
    /\ UNCHANGED <<activeDropdown, currentTokenIndex, dropdownPosition, file,
                   uploadedData, scanVars, panelVars>>

\* Chat.handleAutoExecuteQuery(query), the part of a handler of the panel
\* that calls it through App.handleAutoExecute; the commands of the panel
\* are never blank
handleAutoExecuteQuery(query) ==
    /\ started < MaxRequests
    /\ messages' = Append(messages, UserMessage(query))
    /\ showSuggestions' = FALSE
    /\ isLoading' = TRUE
    /\ inFlight' = inFlight \cup {Request(started + 1, "auto")}
    /\ started' = started + 1
    /\ UNCHANGED <<file, chatTokenVars>>

\* Chat.handleFileUpload; the file input is disabled={isLoading}
handleFileUpload(selectedFile) ==
    /\ ~isLoading
    /\ started < MaxRequests
    /\ file' = selectedFile
    /\ isLoading' = TRUE
    /\ inFlight' = inFlight \cup {Request(started + 1, "upload")}
    /\ started' = started + 1
    /\ pc' = "upload"
    /\ UNCHANGED <<messages, showSuggestions, chatTokenVars, panelVars>>

\* the continuation that appends nothing when the call was rejected
SettleSilentFailure(r, ok) ==
    /\ r \in inFlight
    /\ messages' = (IF ok
                    THEN Append(messages, BotMessage(CHOOSE t \in BotTexts(r.kind, ok) : TRUE))
                    ELSE messages)
    /\ isLoading' = FALSE
    /\ file' = (IF r.kind = "upload" THEN Null ELSE file)
    /\ inFlight' = inFlight \ {r}
    /\ pc' = "settled"
    /\ UNCHANGED <<started, showSuggestions, chatTokenVars, panelVars>>

\* the rest of the handler after await axios.post(...): try or catch, then
\* finally
Settle(r, ok) ==
    /\ r \in inFlight
    /\ \E text \in BotTexts(r.kind, ok) :
          messages' = Append(messages, BotMessage(text))
    /\ isLoading' = FALSE
    /\ file' = (IF r.kind = "upload" THEN Null ELSE file)
    /\ inFlight' = inFlight \ {r}
    /\ pc' = "settled"
    /\ UNCHANGED <<started, showSuggestions, chatTokenVars, panelVars>>

\* the quick-action button that only sets its own flag
handleOptionsButtonClickKeeping(option) ==
    /\ showOptions' = [showOptions EXCEPT ![option] = TRUE]
    /\ selectedMainCategory' = NoCategory
    /\ selectedSubCategory' = NoCategory
    /\ panelClicked' = option
    /\ pc' = "button"
    /\ UNCHANGED prevMainCategory
    /\ UNCHANGED <<panelIsLoading, chatOther, chatTokenVars, requestVars>>

\* handleYearButtonClick .. handleEndCustomerButtonClick:
\* setShowXOptions(!showXOptions); resetAllOptions(); setShowXOptions(true)
handleOptionsButtonClick(option) ==
    /\ showOptions' = [o \in OptionNames |->
                          IF o = option
                          THEN LastSet(<<~showOptions[o], resetAllOptions[o], TRUE>>)
                          ELSE resetAllOptions[o]]
    /\ selectedMainCategory' = NoCategory
    /\ selectedSubCategory' = NoCategory
    /\ panelClicked' = option
    /\ pc' = "button"
    /\ UNCHANGED prevMainCategory
    /\ UNCHANGED <<panelIsLoading, chatOther, chatTokenVars, requestVars>>

\* QuestionPanel.handleGenericSelect(item, type) of the options container on
\* show (its buttons are disabled={isLoading}); await onAutoExecuteQuery
\* (command) gets undefined from App.handleAutoExecute, so the rest of the
\* handler runs before any other event
handleGenericSelect(item, type) ==
    /\ \E o \in DOMAIN GenericType : GenericType[o] = type /\ showOptions[o]
    /\ ~panelIsLoading
    /\ handleAutoExecuteQuery(GenericCommand(item, type))
    /\ panelIsLoading' = LastSet(<<TRUE, FALSE>>)
    /\ showOptions' = resetAllOptions
    /\ selectedMainCategory' = NoCategory
    /\ selectedSubCategory' = NoCategory
    /\ panelClicked' = NoClick
    /\ pc' = "genericSelect"
    /\ UNCHANGED prevMainCategory

\* QuestionPanel.handleYearSelect(year)
handleYearSelect(year) ==
    /\ showOptions["Year"]
    /\ ~panelIsLoading
    /\ handleAutoExecuteQuery(YearCommand(year))
    /\ panelIsLoading' = LastSet(<<TRUE, FALSE>>)
    /\ showOptions' = [showOptions EXCEPT !["Year"] = FALSE]
    /\ panelClicked' = NoClick
    /\ pc' = "yearSelect"
    /\ UNCHANGED <<selectedMainCategory, selectedSubCategory, prevMainCategory>>

\* QuestionPanel.handleMainCategoryClick(mainCategoryId): the branch, then
\* resetAllOptions(), which sets both categories to null again
handleMainCategoryClick(mainCategoryId) ==
    /\ selectedMainCategory' =
          LastSet(<<IF selectedMainCategory = mainCategoryId
                    THEN NoCategory ELSE mainCategoryId,
                    NoCategory>>)
    /\ selectedSubCategory' = LastSet(<<NoCategory, NoCategory>>)
    /\ showOptions' = resetAllOptions
    /\ panelClicked' = mainCategoryId
    /\ prevMainCategory' = selectedMainCategory
    /\ pc' = "mainCategory"
    /\ UNCHANGED <<panelIsLoading, chatOther, chatTokenVars, requestVars>>

\* the user types a query into the empty input (disabled={isLoading})
TypeQuery == \E q \in Queries : ~isLoading /\ input = <<>> /\ handleInputChange(q)
\* the user submits the form
SubmitForm == handleSendMessage
\* the user picks a file
ChooseFile == \E f \in Files : handleFileUpload(f)
\* the call of request number id settles, resolved or rejected
SettleNumbered(id) ==
    \E r \in inFlight, ok \in BOOLEAN : r.id = id /\ Settle(r, ok)
SettleRequest == \E id \in 1..MaxRequests : SettleNumbered(id)
\* the user clicks a quick-action button, an option of the container on
\* show, a main category
ClickOptionsButton == \E o \in OptionNames : handleOptionsButtonClick(o)
ClickOEMButton == handleOptionsButtonClick("OEM")
SelectOption ==
    \E o \in DOMAIN GenericType : handleGenericSelect(FirstOption[o], GenericType[o])
SelectOEM == handleGenericSelect(FirstOption["OEM"], GenericType["OEM"])
SelectYear == handleYearSelect(FirstOption["Year"])
ClickMainCategory == \E id \in MainCategories : handleMainCategoryClick(id)

\* Chat and its requests, with the OEM options of the panel as the source
\* of handleAutoExecuteQuery; every awaited call settles
NextRequests ==
    \/ TypeQuery
    \/ SubmitForm
    \/ ChooseFile
    \/ ClickOEMButton
    \/ SelectOEM
    \/ SettleRequest

SpecRequests ==
    /\ Init
    /\ [][NextRequests]_vars
    /\ \A id \in 1..MaxRequests : WF_vars(SettleNumbered(id))

\* QuestionPanel on its own; the queries it starts stay in flight
NextPanel ==
    \/ ClickOptionsButton
    \/ SelectOption
    \/ SelectYear
    \/ ClickMainCategory

SpecPanel == Init /\ [][NextPanel]_vars

----------------------------------------------------------------------------
(* Properties *)

\* the raw text of the segments, in order
SegmentValues(toks) == [k \in 1..Len(toks) |-> toks[k].value]

\* the contents of the token segments, in order
TokenContents(toks) ==
    LET ts == SelectSeq(toks, LAMBDA t : t.type = "token")
    IN  [k \in 1..Len(ts) |-> ts[k].content]

\* v is, as a whole, one match of /\[[^\]]+\]/
IsWholeTokenMatch(v) == Len(v) >= 1 /\ TokenEndAt(v, 1) = Len(v)

\* the segments with the raw text of the one with the given key replaced
ReplaceSegment(toks, key, value) ==
    Concat([k \in 1..Len(toks) |-> IF toks[k].key = key THEN value ELSE toks[k].value])

\* the bracketed literal of a dropdown, lower-cased
BracketLiteral(dropdown) == <<"[">> \o toLowerCase(dropdown) \o <<"]">>

\* the matches of the token pattern in s that equal the bracketed literal
EqualTokens(s, dropdown) ==
    {k \in 1..Len(TokenMatches(s)) :
        toLowerCase(matchTokens(s)[k]) = BracketLiteral(dropdown)}

\* text contains one of the role keywords (the keys of the mapping table)
ContainsRoleKeyword(text) ==
    LET lower == toLowerCase(text)
    IN  \E i \in 1..Len(directRoleMapping) :
            includes(lower, directRoleMapping[i][1])

(* C1: the raw text of the segments of a parse, concatenated in order, is  *)
(* the input string; the empty input gives the empty segment list.         *)
C1_RoundTrip ==
    pc = "parsed" =>
        /\ Concat(SegmentValues(tokens)) = input
        /\ (input = <<>> => tokens = <<>>)

C1_Witness ==
    /\ pc = "parsed"
    /\ Len(tokens) >= 3
    /\ \E k \in 1..Len(tokens) : tokens[k].type = "token"
    /\ \E k \in 1..Len(tokens) : tokens[k].type = "text"

(* C2: after a click on a rendered token and a selection with no edit in   *)
(* between, the input is the old input with the clicked segment replaced   *)
(* by the value and every other segment as it was.                         *)
C2_ClickedOccurrenceReplaced ==
    (pc = "select" /\ clicked # NoSegment) =>
        input = ReplaceSegment(parseTokens(prevInput), clicked.key, selValue)

(* C3: in 'Compare [Business Head] [Name] with [OEM] [Name]' the literal   *)
(* 'name' resolves to Business Head at ordinal index 0 and to OEM at       *)
(* ordinal index 1.                                                        *)
C3_NamePerOccurrence ==
    (pc = "rendered" /\ input = ExCompareNames /\ activeDropdown = kw_name) =>
        /\ (currentTokenIndex = 0 => actualRole = "Business Head")
        /\ (currentTokenIndex = 1 => actualRole = "OEM")

C3_Witness ==
    /\ pc = "rendered"
    /\ input = ExCompareNames
    /\ activeDropdown = kw_name
    /\ currentTokenIndex = 1
    /\ actualRole = "OEM"

(* C4: with two or more tokens of the same bracket text and a selection at *)
(* ordinal index 0, the first of them is replaced by the value and the     *)
(* rest of the string is unchanged; '[OEM] partnered with [OEM]' with      *)
(* 'Cisco' becomes 'Cisco partnered with [OEM]'.                           *)
C4_FirstDuplicateReplaced ==
    (/\ pc = "select"
     /\ prevTokenIndex = 0
     /\ Cardinality(EqualTokens(prevInput, prevDropdown)) >= 2) =>
        LET m == TokenMatches(prevInput)[SetMin(EqualTokens(prevInput, prevDropdown))]
        IN  /\ input = SubSeq(prevInput, 1, m[1] - 1) \o selValue
                          \o SubSeq(prevInput, m[2] + 1, Len(prevInput))
            /\ (prevInput = ExOemPartnered /\ selValue = v_Cisco
                    => input = ExCiscoPartnered)

C4_Witness ==
    /\ pc = "select"
    /\ prevTokenIndex = 0
    /\ prevInput = ExOemPartnered
    /\ prevDropdown = kw_oem
    /\ selValue = v_Cisco
    /\ input = ExCiscoPartnered

(* C5: for a literal content other than 'name' the resolved role does not  *)
(* depend on the full text or the ordinal index: it is the role resolved   *)
(* for the empty text and index -1, and 'oem' gives OEM.                   *)
C5_ContextIndependent ==
    (pc = "rendered" /\ trim(toLowerCase(activeDropdown)) # kw_name) =>
        /\ actualRole = getRoleFromPlaceholder(activeDropdown, <<>>, -1)
        /\ (activeDropdown = kw_oem => actualRole = "OEM")

C5_Witness ==
    /\ pc = "rendered"
    /\ activeDropdown = kw_oem
    /\ includes(toLowerCase(input), kw_business_head)
    /\ includes(toLowerCase(input), kw_bracket_name)
    /\ currentTokenIndex = 0
    /\ actualRole = "OEM"

(* C6 as stated: '[Business Head] vs [OEM]' parses into 5 segments, none   *)
(* empty, with the token contents 'business head' and 'oem'.               *)
C6_FiveSegments ==
    (pc = "parsed" /\ input = ExBusinessHeadVsOem) =>
        /\ Len(tokens) = 5
        /\ \A k \in 1..Len(tokens) : tokens[k].value # <<>>
        /\ TokenContents(tokens) = <<kw_business_head, kw_oem>>

(* C6: '[Business Head] vs [OEM]' parses into 3 segments, token, text,     *)
(* token, none empty, with the token contents 'business head' and 'oem'.   *)
C6_ThreeSegments ==
    (pc = "parsed" /\ input = ExBusinessHeadVsOem) =>
        /\ Len(tokens) = 3
        /\ [k \in 1..3 |-> tokens[k].type] = <<"token", "text", "token">>
        /\ \A k \in 1..Len(tokens) : tokens[k].value # <<>>
        /\ TokenContents(tokens) = <<kw_business_head, kw_oem>>

C6_Witness ==
    /\ pc = "parsed"
    /\ input = ExBusinessHeadVsOem
    /\ Len(tokens) = 3

(* C7: a segment is a token only when it is, as a whole, a match of the    *)
(* token pattern; '[OEM', '[]' and '[]]' give text segments only.          *)
C7_TokenOnlyOnWholeMatch ==
    pc = "parsed" =>
        /\ \A k \in 1..Len(tokens) :
              tokens[k].type = "token" => IsWholeTokenMatch(tokens[k].value)
        /\ (input \in {ExUnterminated, ExEmptyBrackets, ExEmptyBracketsClose}
                => \A k \in 1..Len(tokens) : tokens[k].type = "text")

(* C8: the resolved role is one of the eleven role names, for every        *)
(* literal content, full text and ordinal index.                           *)
C8_RoleInClosedSet == pc = "rendered" => actualRole \in Roles

(* C9: for the literal 'name' and a full text without any role keyword the *)
(* resolved role is Business Head, for every ordinal index.                *)
C9_DefaultBusinessHead ==
    (/\ pc = "rendered"
     /\ trim(toLowerCase(activeDropdown)) = kw_name
     /\ ~ContainsRoleKeyword(input)) =>
        actualRole = "Business Head"

C9_Witness ==
    /\ pc = "rendered"
    /\ activeDropdown = kw_name
    /\ input = ExNoRoleHints
    /\ currentTokenIndex = 0
    /\ actualRole = "Business Head"

HasMeta(literal) == \E k \in 1..Len(literal) : literal[k] \in RegExpMeta

\* new is old with the n characters from index i replaced by some text
ReplacedAt(new, old, i, n) ==
    LET tail == Len(old) - (i + n - 1)
    IN  /\ Len(new) >= (i - 1) + tail
        /\ SubSeq(new, 1, i - 1) = SubSeq(old, 1, i - 1)
        /\ SubSeq(new, Len(new) - tail + 1, Len(new)) = SubSeq(old, i + n, Len(old))

C11_MetaLiteralOnly ==
    (pc \in {"select", "selectThrew"} /\ HasMeta(prevDropdown)) =>
        /\ pc = "select"
        /\ \/ input = prevInput
           \/ \E i \in 1..Len(prevInput) :
                 /\ OccursAt(toLowerCase(prevInput), BracketLiteral(prevDropdown), i)
                 /\ ReplacedAt(input, prevInput, i, Len(prevDropdown) + 2)

\* the fallback replaced [.] next to [a], which the unescaped pattern matches
C11_Witness ==
    /\ pc = "select"
    /\ prevDropdown = lit_dot
    /\ prevTokenIndex = -1
    /\ prevInput = s_a \o s_dot
    /\ input = s_a \o selValue

(* C12: a call of handleDropdownSelect changes none of messages, isLoading, *)
(* file, showSuggestions and dropdownPosition; with an active dropdown it  *)
(* leaves activeDropdown null and currentTokenIndex -1, also when nothing  *)
(* was replaced; without one it changes no state of Chat.                  *)
C12_SelectFrame ==
    [][pc' \in {"select", "selectIgnored"} =>
          /\ UNCHANGED <<chatOther, dropdownPosition>>
          /\ pc' = "select" =>
                (Truthy(activeDropdown) /\ activeDropdown' = Null /\ currentTokenIndex' = -1)
          /\ pc' = "selectIgnored" =>
                (~Truthy(activeDropdown)
                 /\ UNCHANGED <<input, activeDropdown, currentTokenIndex>>)]_vars

\* nothing was replaced while a request was running, and the dropdown closed
C12_Witness ==
    /\ pc = "select"
    /\ input = prevInput
    /\ prevTokenIndex >= 0
    /\ isLoading
    /\ ~showSuggestions
    /\ activeDropdown = Null
    /\ currentTokenIndex = -1

(* C13: after a click on a token, the index handed to onTokenClick is the *)
(* number of token segments before the clicked one with the same content, *)
(* whatever the literal.                                                   *)
SameContentBefore(toks, token) ==
    Cardinality({k \in 1..Len(toks) :
                    /\ toks[k].type = "token"
                    /\ toks[k].content = token.content
                    /\ toks[k].key < token.key})

C13_OrdinalAmongSameLiteral ==
    pc = "click" => currentTokenIndex = SameContentBefore(tokens, clicked)

(* C14: every call of getRoleFromPlaceholder ends and returns a value,    *)
(* for every literal, full text and index; the loop over the [name]        *)
(* occurrences ends for any number of them and any index.                  *)
C14_Terminates == (pc = "mounted") ~> (pc = "rendered" /\ actualRole # NoRole)

\* the loop counted an occurrence and ended without the target: the index
\* is out of range
C14_Witness ==
    /\ pc = "rendered"
    /\ scanCount >= 1
    /\ scanTarget = 0
    /\ actualRole \in Roles

\* the steps of the loop compute what NameTokenScan and
\* getRoleFromPlaceholder compute
ScanAgrees ==
    /\ pc = "scanned" =>
          scanTarget = NameTokenScan(toLowerCase(input), 1, 0, currentTokenIndex)
    /\ pc = "rendered" =>
          actualRole = getRoleFromPlaceholder(activeDropdown, input, currentTokenIndex)

(* C15: when a selection finds the bracketed literal in the input, the   *)
(* new input is the old one with one occurrence of it replaced by the      *)
(* selected value, character for character, whichever branch ran and       *)
(* whatever the value.                                                     *)
C15_ValueVerbatim ==
    (pc = "select" /\ includes(toLowerCase(prevInput), BracketLiteral(prevDropdown))) =>
        \E i \in 1..Len(prevInput) :
            /\ OccursAt(toLowerCase(prevInput), BracketLiteral(prevDropdown), i)
            /\ input = SubSeq(prevInput, 1, i - 1) \o selValue
                           \o SubSeq(prevInput, i + Len(prevDropdown) + 2, Len(prevInput))

(* C16: the list offered for a resolved role is the list extracted from  *)
(* the uploaded dataset for that role when that list is not empty, and     *)
(* the static list of the role otherwise.                                  *)
DatasetList(role, data) ==
    CASE role = "OEM" -> extractedValues(data).oems
      [] role = "Partner" -> extractedValues(data).partners
      [] role = "Business Head" -> extractedValues(data).businessHeads
      [] OTHER -> <<>>

C16_DatasetListFirst ==
    pc = "rendered" =>
        items = (IF DatasetList(actualRole, uploadedData) # <<>>
                 THEN DatasetList(actualRole, uploadedData)
                 ELSE Items(actualRole))

(* C17: when the input holds text equal, compared without case, to the   *)
(* bracketed literal, a selection replaces the left-most such text and     *)
(* nothing else, and the new input is the same for every stored index.     *)
C17_LeftmostWhateverIndex ==
    (pc = "select" /\ includes(toLowerCase(prevInput), BracketLiteral(prevDropdown))) =>
        /\ ReplacedAt(input, prevInput,
                      indexOf(toLowerCase(prevInput), BracketLiteral(prevDropdown), 1),
                      Len(prevDropdown) + 2)
        /\ \A j \in -1..MaxSelIdx :
              input = SelectResult(prevInput, prevDropdown, j, selValue)

(* C18: for a literal other than 'name', the role is the one of the key  *)
(* of the mapping table that equals the literal; without such a key it is  *)
(* the role of the first key, in the order of the table, that is a         *)
(* substring of the literal.                                               *)
EqualKeys(literal) ==
    {i \in 1..Len(directRoleMapping) : directRoleMapping[i][1] = literal}
SubstringKeys(literal) ==
    {i \in 1..Len(directRoleMapping) : includes(literal, directRoleMapping[i][1])}

C18_ExactThenFirstSubstring ==
    LET literal == trim(toLowerCase(activeDropdown))
        equal == EqualKeys(literal)
        inside == SubstringKeys(literal)
    IN  (pc = "rendered" /\ literal # kw_name) =>
            /\ equal # {} => actualRole = directRoleMapping[SetMin(equal)][2]
            /\ (equal = {} /\ inside # {}) =>
                  actualRole = directRoleMapping[SetMin(inside)][2]

\* 'group channel champ name' holds the keys 'channel champ' and 'group
\* channel champ'; the first of the table gives the role
C18_Witness ==
    /\ pc = "rendered"
    /\ activeDropdown = lit_gcc_name
    /\ EqualKeys(lit_gcc_name) = {}
    /\ Cardinality(SubstringKeys(lit_gcc_name)) >= 2
    /\ actualRole = "Channel Champ"

(* C19: when the target '[name]' occurrence is found, the role is the one  *)
(* of the first pattern, in the order OEM, Partner, End Customer, Business *)
(* Head, Group Business Manager, Group Channel Champ, Channel Champ,       *)
(* Vertical Champ, Regional Commercial Business Manager, Vertical Account, *)
(* that matches the last five words or the whole text before the target;   *)
(* the text after the target then has no influence on the role.            *)
C19_Order ==
    <<"OEM", "Partner", "End Customer", "Business Head", "Group Business Manager",
      "Group Channel Champ", "Channel Champ", "Vertical Champ",
      "Regional Commercial Business Manager", "Vertical Account">>

\* the start of the occurrence of '[name]' numbered n (from 0) in text, or 0
NameOccurrences(text) ==
    LET lower == toLowerCase(text)
    IN  {i \in 1..Len(text) : OccursAt(lower, kw_bracket_name, i)}
OccurrenceNumbered(text, n) ==
    LET occ == NameOccurrences(text)
        at == {i \in occ : Cardinality({j \in occ : j < i}) = n}
    IN  IF at = {} THEN 0 ELSE SetMin(at)

\* the roles whose pattern matches the last five words or the whole of before
RolesMatchingBefore(before) ==
    LET window == RecentWords(WordsFrom(before, 1))
    IN  {rolePatterns[r].role : r \in
            {q \in 1..Len(rolePatterns) :
                \/ RolePatternTest(rolePatterns[q], window)
                \/ RolePatternTest(rolePatterns[q], before)}}

C19_FirstPatternBeforeTarget ==
    LET target == IF currentTokenIndex >= 0
                  THEN OccurrenceNumbered(input, currentTokenIndex) ELSE 0
        before == toLowerCase(SubSeq(input, 1, target - 1))
        matching == RolesMatchingBefore(before)
        upToTarget == SubSeq(input, 1, target + Len(kw_bracket_name) - 1)
    IN  (/\ pc = "rendered"
         /\ trim(toLowerCase(activeDropdown)) = kw_name
         /\ target > 0
         /\ matching # {}) =>
            /\ actualRole = C19_Order[SetMin({k \in 1..Len(C19_Order) :
                                                 C19_Order[k] \in matching})]
            /\ \A after \in ContextFragments \cup {<<>>} :
                  getRoleFromPlaceholder(activeDropdown, upToTarget \o after,
                                         currentTokenIndex) = actualRole

\* 'oem a b c d e account [Name]': the last five words hold 'account' only,
\* the whole text before the target holds 'oem' too, first in the order
C19_Witness ==
    /\ pc = "rendered"
    /\ input = ExOemFarAccountNear
    /\ activeDropdown = kw_name
    /\ currentTokenIndex = 0
    /\ RolesMatchingBefore(toLowerCase(SubSeq(input, 1,
           OccurrenceNumbered(input, 0) - 1))) = {"OEM", "Vertical Account"}
    /\ actualRole = "OEM"

(* C20: when no single-role pattern matches the text before the target     *)
(* '[name]' and a two-role relationship pattern matches the full text, the *)
(* role is the first role of the first such pattern if no '[name]'         *)
(* precedes the target, and its second role if one or more precede it.     *)
RelationshipsMatching(text) ==
    {m \in 1..Len(multiNamePatterns) :
        MultiNameTest(multiNamePatterns[m], toLowerCase(text))}

C20_RelationshipByPosition ==
    LET target == IF currentTokenIndex >= 0
                  THEN OccurrenceNumbered(input, currentTokenIndex) ELSE 0
        before == toLowerCase(SubSeq(input, 1, target - 1))
        relations == RelationshipsMatching(input)
        preceding == {i \in NameOccurrences(input) : i < target}
    IN  (/\ pc = "rendered"
         /\ trim(toLowerCase(activeDropdown)) = kw_name
         /\ target > 0
         /\ RolesMatchingBefore(before) = {}
         /\ relations # {}) =>
            actualRole = IF preceding = {}
                         THEN multiNamePatterns[SetMin(relations)].roles[1]
                         ELSE multiNamePatterns[SetMin(relations)].roles[2]

\* '[Name] [Name] [Name] business head with oem': the third [Name] has two
\* '[name]' before it and gets the second role, OEM
C20_Witness ==
    /\ pc = "rendered"
    /\ input = ExThreeNames
    /\ activeDropdown = kw_name
    /\ currentTokenIndex = 2
    /\ RolesMatchingBefore(toLowerCase(SubSeq(input, 1,
           OccurrenceNumbered(input, 2) - 1))) = {}
    /\ RelationshipsMatching(input) = {1}
    /\ actualRole = "OEM"

(* C21: when the literal is 'name' and the index is negative or not        *)
(* smaller than the number of '[name]' occurrences of the text, the single *)
(* role and relationship patterns are skipped: the role is the one of the  *)
(* first entry of the keyword list with a keyword anywhere in the          *)
(* lower-cased text.                                                       *)
KeywordEntries(text) ==
    LET lower == toLowerCase(text)
    IN  {k \in 1..Len(keywordToRole) :
            \E n \in 1..Len(keywordToRole[k].keywords) :
                includes(lower, keywordToRole[k].keywords[n])}

IndexOutOfRange(text, index) ==
    index < 0 \/ index >= Cardinality(NameOccurrences(text))

C21_OutOfRangeKeywordList ==
    LET entries == KeywordEntries(input)
    IN  (/\ pc = "rendered"
         /\ trim(toLowerCase(activeDropdown)) = kw_name
         /\ IndexOutOfRange(input, currentTokenIndex)
         /\ entries # {}) =>
            actualRole = keywordToRole[SetMin(entries)].role

\* 'oem[Name]Business Head' with index 1: the single-role patterns would
\* give OEM for the only occurrence, the keyword list gives Business Head
C21_Witness ==
    /\ pc = "rendered"
    /\ input = c_oem \o c_Name \o c_business_head
    /\ activeDropdown = kw_name
    /\ currentTokenIndex = 1
    /\ Cardinality(NameOccurrences(input)) = 1
    /\ PositionBasedRole(input, OccurrenceNumbered(input, 0)) = "OEM"
    /\ actualRole = "Business Head"

(* C22: a literal that is not 'name' and matches no key of the mapping     *)
(* table, neither exactly nor as a substring, resolves to Business Head    *)
(* for every full text and index.                                          *)
C22_UnknownLiteralBusinessHead ==
    LET literal == trim(toLowerCase(activeDropdown))
    IN  (/\ pc = "rendered"
         /\ literal # kw_name
         /\ EqualKeys(literal) = {}
         /\ SubstringKeys(literal) = {}) =>
            actualRole = "Business Head"

(* C29: a literal other than 'name' that holds 'group channel champ' as a  *)
(* proper substring resolves to Group Channel Champ.                       *)
C29_GroupChannelChampInside ==
    LET literal == trim(toLowerCase(activeDropdown))
    IN  (/\ pc = "rendered"
         /\ literal # kw_name
         /\ literal # kw_group_channel_champ
         /\ includes(literal, kw_group_channel_champ)) =>
            actualRole = "Group Channel Champ"

(* C30: when the resolution of a [Name] token reaches the keyword list and *)
(* the full text holds 'group business manager', the role is Group         *)
(* Business Manager.                                                       *)
ReachesKeywordList(text, index) ==
    LET target == IF index >= 0 THEN OccurrenceNumbered(text, index) ELSE 0
    IN  target = 0 \/ PositionBasedRole(text, target) = Undefined

C30_GroupBusinessManagerKeyword ==
    (/\ pc = "rendered"
     /\ trim(toLowerCase(activeDropdown)) = kw_name
     /\ ReachesKeywordList(input, currentTokenIndex)
     /\ includes(toLowerCase(input), kw_group_business_manager)) =>
        actualRole = "Group Business Manager"

(* C24: when the input is not edited between a click on a rendered token   *)
(* and the selection of a value without brackets, the selection changes    *)
(* the input and the number of bracketed tokens in it goes down by exactly *)
(* one, for every token the parser renders as clickable, '[ OEM ]' with    *)
(* its blanks inside the brackets included.                                *)
BracketFree(value) == \A i \in 1..Len(value) : value[i] \notin {"[", "]"}

TokenCount(text) ==
    LET toks == parseTokens(text)
    IN  Cardinality({k \in 1..Len(toks) : toks[k].type = "token"})

C24_SelectionRemovesOneToken ==
    (pc = "select" /\ clicked # NoSegment /\ BracketFree(selValue)) =>
        /\ input # prevInput
        /\ TokenCount(input) = TokenCount(prevInput) - 1

(* C25: in every reachable state of Chat, currentTokenIndex is -1 whenever *)
(* no dropdown is shown, that is whenever activeDropdown is null or empty. *)
C25_NoIndexWithoutDropdown ==
    ~Truthy(activeDropdown) => currentTokenIndex = -1

(* C23: a click on a main category that is not the selected one expands    *)
(* it: after handleMainCategoryClick(id) with selectedMainCategory other   *)
(* than id, selectedMainCategory is id; a click on the selected one        *)
(* collapses it, selectedMainCategory becomes null.                        *)
C23_CategoryClickToggles ==
    pc = "mainCategory" =>
        selectedMainCategory = (IF prevMainCategory # panelClicked
                                THEN panelClicked ELSE NoCategory)

(* C26: isLoading is true in every state of Chat in which a request        *)
(* started by handleSendMessage, handleAutoExecuteQuery or                 *)
(* handleFileUpload has not completed, also when two requests overlap and  *)
(* one of them finishes first.                                             *)
C26_LoadingWhileInFlight == inFlight # {} => isLoading

(* C27: every call of handleSendMessage with a non-blank message appends   *)
(* one user message and, as its request succeeds or fails in the end,      *)
(* appends exactly one bot message for it later, the response or the error *)
(* text, and sets isLoading to false.                                      *)
SendInFlight(id) == Request(id, "send") \in inFlight

SendStarts(id) ==
    (~SendInFlight(id) /\ SendInFlight(id)') =>
        /\ trim(input) # <<>>
        /\ messages' = Append(messages, UserMessage(input))

SendSettles(id) ==
    (SendInFlight(id) /\ ~SendInFlight(id)') =>
        /\ \E text \in Responses \cup {QueryErrorText} :
              messages' = Append(messages, BotMessage(text))
        /\ isLoading' = FALSE

C27_SendAnsweredOnce ==
    /\ [][\A id \in 1..MaxRequests : SendStarts(id) /\ SendSettles(id)]_vars
    /\ \A id \in 1..MaxRequests : SendInFlight(id) ~> ~SendInFlight(id)

\* 'hi' was sent and its request failed: the user message, then the error
\* text as the only bot message
C27_Witness ==
    /\ pc = "settled"
    /\ started = 1
    /\ inFlight = {}
    /\ messages = <<UserMessage(q_hi), BotMessage(QueryErrorText)>>
    /\ ~isLoading

(* C28: after any sequence of quick-action button clicks, option           *)
(* selections and category clicks at most one of the twelve show...Options *)
(* flags is true, and right after a click on a quick-action button exactly *)
(* the flag of that button is true.                                        *)
OptionsShown == {o \in OptionNames : showOptions[o]}

C28_OneOptionsFlag ==
    /\ Cardinality(OptionNames) = 12
    /\ Cardinality(OptionsShown) <= 1
    /\ pc = "button" => OptionsShown = {panelClicked}

\* the Partner button clicked after an option was selected
C28_Witness ==
    /\ pc = "button"
    /\ panelClicked = "Partner"
    /\ started >= 1
    /\ OptionsShown = {"Partner"}

====
